---- MODULE Spec2Model ----
(***************************************************************************)
(* Feedback -> issue tracker sync driver (judinilson/APP).                 *)
(*                                                                         *)
(* The model follows src/unnamed/part_003 (the complete sync script):      *)
(* the document store holds one feedback record per submission, the blob   *)
(* store holds chunked screenshots, the issue tracker holds the issues     *)
(* created so far.  A runner executes main(): the pending query, the       *)
(* per-record try/catch protocol, then the retry-reset stage.  Every       *)
(* awaited external call is one step and may fail.                         *)
(*                                                                         *)
(* Encoding: a null number/timestamp/url is 0 (Null); a null error         *)
(* message is the string "null" (NoMsg).  githubIssueUrl is represented by *)
(* the number of the issue it points to (html_url is .../issues/<number>). *)
(***************************************************************************)
EXTENDS Integers, Sequences, FiniteSets, TLC

\* ---- bounds of the model ------------------------------------------------
NumRecords == 2
MaxRuns == 4
MaxFaults == 3
MaxChunks == 2

\* ---- program constants --------------------------------------------------
PendingLimit == 10
RetryLimit == 5
RetryCeiling == 3
TitleLimit == 80
ExportLimit == 50

Null == 0
NoMsg == "null"
NoExit == 0 - 1

VARIABLES
  store,      \* collection 'feedback': record id -> document fields
  blobs,      \* collection 'feedback_screenshots': screenshot id -> metadata + chunks
  issues,     \* issue tracker: the feedback id of each issue created (number = position)
  logFile,    \* feedback_logs/feedback_processing_log.json: ids logged
  clock,      \* server time
  cfg,        \* parameters of this behaviour: [runners, maxRuns, maxFaults]
  runs,       \* runs started so far
  faults,     \* external-call failures so far
  pc,         \* runner -> position in main()
  snap,       \* runner -> snapshot.docs of the pending query
  failedSnap, \* runner -> failedFeedback.docs of the retry query
  idx,        \* runner -> index of the current doc in the loop being run
  loc,        \* runner -> locals of the current loop iteration
  exitCode,   \* runner -> exit code of its last finished run (NoExit while none)
  attempts,   \* record id -> create-issue calls made for it so far
  hist,       \* runner -> history of the current run (calls and updates made)
  exporter    \* the report exporter process: position, locals, files written

vars == <<store, blobs, issues, logFile, clock, cfg, runs, faults,
          pc, snap, failedSnap, idx, loc, exitCode, attempts, hist, exporter>>

\* ---- helpers --------------------------------------------------------------
Min(a, b) == IF a < b THEN a ELSE b

RECURSIVE SetToSeqBy(_, _)
\* the elements of S as a sequence, greatest key first (key is injective on S)
SetToSeqBy(S, key) ==
  IF S = {} THEN <<>>
  ELSE LET m == CHOOSE x \in S : \A y \in S : key[y] <= key[x]
       IN <<m>> \o SetToSeqBy(S \ {m}, key)

Take(s, n) == SubSeq(s, 1, Min(n, Len(s)))

\* ---- the blob store and reconstructScreenshot ------------------------------
Unavailable == [ok |-> FALSE, mimeType |-> "null", data |-> <<>>]

\* mutant: the chunks query without .orderBy('index')
OrderAsStored(chunks) == chunks

RECURSIVE OrderByIndex(_)
\* .orderBy('index'): chunk documents by ascending index, ties by document
\* position (the document id order)
OrderByIndex(chunks) ==
  IF chunks = <<>> THEN <<>>
  ELSE LET i == CHOOSE i \in 1..Len(chunks) :
                  \A j \in 1..Len(chunks) :
                     \/ chunks[i].index < chunks[j].index
                     \/ chunks[i].index = chunks[j].index /\ i <= j
           rest == [k \in 1..(Len(chunks) - 1) |->
                      IF k < i THEN chunks[k] ELSE chunks[k + 1]]
       IN <<chunks[i]>> \o OrderByIndex(rest)

RECURSIVE ConcatData(_)
ConcatData(docs) ==
  IF docs = <<>> THEN <<>> ELSE Head(docs).data \o ConcatData(Tail(docs))

\* mutant: reconstructScreenshot without the chunk-count comparison
ReconstructScreenshotAnyCount(bl, screenshotId) ==
  LET screenshotDoc == bl[screenshotId]
      docs == OrderByIndex(screenshotDoc.chunks)
  IN IF ~screenshotDoc.exists THEN Unavailable
     ELSE IF docs = <<>> THEN Unavailable
     ELSE [ok |-> TRUE,
           mimeType |-> IF screenshotDoc.mimeType = "null" THEN "image/png"
                        ELSE screenshotDoc.mimeType,
           data |-> ConcatData(docs)]

\* mutant: reconstructScreenshot also requires the indices 0..totalChunks-1
ReconstructScreenshotDenseOnly(bl, screenshotId) ==
  LET screenshotDoc == bl[screenshotId]
      docs == OrderByIndex(screenshotDoc.chunks)
  IN IF ~screenshotDoc.exists THEN Unavailable
     ELSE IF docs = <<>> \/ Len(docs) # screenshotDoc.totalChunks THEN Unavailable
     ELSE IF \E i \in 1..Len(docs) : docs[i].index # i - 1 THEN Unavailable
     ELSE [ok |-> TRUE,
           mimeType |-> IF screenshotDoc.mimeType = "null" THEN "image/png"
                        ELSE screenshotDoc.mimeType,
           data |-> ConcatData(docs)]

\* the value reconstructScreenshot returns when no store read throws
ReconstructScreenshot(bl, screenshotId) ==
  LET screenshotDoc == bl[screenshotId]
      docs == OrderByIndex(screenshotDoc.chunks)
  IN IF ~screenshotDoc.exists THEN Unavailable
     ELSE IF docs = <<>> \/ Len(docs) # screenshotDoc.totalChunks THEN Unavailable
     ELSE [ok |-> TRUE,
           mimeType |-> IF screenshotDoc.mimeType = "null" THEN "image/png"
                        ELSE screenshotDoc.mimeType,
           data |-> ConcatData(docs)]

\* the MIME types a screenshot's metadata may carry, and their characters
MimeTypes ==
  {"image/png", "image/jpeg", "image/jpg", "image/webp",
   "image/gif", "image/x-png", "image/apng", "image/svg+xml"}

Characters ==
  ("image/png" :> <<"i", "m", "a", "g", "e", "/", "p", "n", "g">>) @@
  ("image/jpeg" :> <<"i", "m", "a", "g", "e", "/", "j", "p", "e", "g">>) @@
  ("image/jpg" :> <<"i", "m", "a", "g", "e", "/", "j", "p", "g">>) @@
  ("image/webp" :> <<"i", "m", "a", "g", "e", "/", "w", "e", "b", "p">>) @@
  ("image/gif" :> <<"i", "m", "a", "g", "e", "/", "g", "i", "f">>) @@
  ("image/x-png" :> <<"i", "m", "a", "g", "e", "/", "x", "-", "p", "n", "g">>) @@
  ("image/apng" :> <<"i", "m", "a", "g", "e", "/", "a", "p", "n", "g">>) @@
  ("image/svg+xml" :> <<"i", "m", "a", "g", "e", "/", "s", "v", "g", "+", "x", "m", "l">>)

\* text.includes(part)
Includes(text, part) ==
  \E i \in 0..(Len(text) - Len(part)) :
     \A j \in 1..Len(part) : text[i + j] = part[j]

\* saveScreenshotLocally: the extension of the file written
Extension(mimeType) ==
  IF Includes(Characters[mimeType], <<"p", "n", "g">>) THEN "png" ELSE "jpg"

\* ---- the issue title and labels ----------------------------------------------
\* A text is a sequence of one-character strings; an absent (undefined, null)
\* text and the empty string are both <<>>: the code only tests them for
\* truthiness.
DefaultStatus == "status:reportado"

\* a title is a sequence of strings: the tag, then the characters taken from
\* the text and '...' if it follows, or the words of the fallback title
Title(chars, ellipsis) ==
  <<"[Feedback] ">> \o chars \o (IF ellipsis THEN <<"...">> ELSE <<>>)

FallbackTitle(feedbackId) ==
  <<"[Feedback] ", "User feedback (", ToString(feedbackId), ")">>

NoTitle == <<>>

\* text.substring(0, n)
Substring0(text, n) == SubSeq(text, 1, Min(n, Len(text)))

\* mutant: the ellipsis is appended from TitleLimit characters on
IssueTitleEllipsisAtLimit(text, feedbackId) ==
  IF text # <<>>
  THEN Title(Substring0(text, TitleLimit), Len(text) >= TitleLimit)
  ELSE FallbackTitle(feedbackId)

IssueTitle(text, feedbackId) ==
  IF text # <<>>
  THEN Title(Substring0(text, TitleLimit), Len(text) > TitleLimit)
  ELSE FallbackTitle(feedbackId)

LowerChar(c) ==
  IF c = "I" THEN "i" ELSE IF c = "O" THEN "o" ELSE IF c = "S" THEN "s" ELSE c

ToLowerCase(text) == [i \in 1..Len(text) |-> LowerChar(text[i])]

\* mutant: the platform is matched without lower-casing it
IssueLabelsCaseSensitive(platform) ==
  <<"feedback", "from-app", DefaultStatus>> \o
    (IF platform # <<>>
     THEN <<IF Includes(platform, <<"i", "o", "s">>) THEN "ios" ELSE "android">>
     ELSE <<>>)

IssueLabels(platform) ==
  <<"feedback", "from-app", DefaultStatus>> \o
    (IF platform # <<>>
     THEN <<IF Includes(ToLowerCase(platform), <<"i", "o", "s">>)
            THEN "ios" ELSE "android">>
     ELSE <<>>)

\* ---- the document store ---------------------------------------------------
NewRecord(ts, ref) ==
  [githubIssueUrl |-> Null, githubIssueNumber |-> Null, githubIssueError |-> NoMsg,
   retryCount |-> 0, status |-> "null", processedAt |-> Null,
   lastAttempt |-> Null, lastRetry |-> Null,
   timestamp |-> ts, screenshot_ref |-> ref, text |-> <<>>, platform |-> <<>>]

IsPending(d) == d.githubIssueUrl = Null /\ d.githubIssueError = NoMsg
IsFailed(d) == d.githubIssueUrl = Null /\ d.githubIssueError # NoMsg
IsSynced(d) == d.githubIssueUrl # Null
IsExhausted(d) == IsFailed(d) /\ d.retryCount >= RetryCeiling

Docs(st, ids) == [i \in 1..Len(ids) |-> [id |-> ids[i], data |-> st[ids[i]]]]

\* mutant: the pending query without its githubIssueUrl filter
PendingMatchesAnyUrl(st) == {r \in DOMAIN st : st[r].githubIssueError = NoMsg}

\* mutant: the pending query without its githubIssueError filter
PendingMatchesAnyError(st) == {r \in DOMAIN st : st[r].githubIssueUrl = Null}

\* newFeedbackQuery: pending records, newest first, at most PendingLimit
PendingMatches(st) == {r \in DOMAIN st : IsPending(st[r])}

\* mutant: the pending query ordered by timestamp ascending
NewFeedbackQueryOldestFirst(st) ==
  LET S == PendingMatches(st)
  IN Docs(st, Take(SetToSeqBy(S, [r \in S |-> 0 - st[r].timestamp]), PendingLimit))

\* mutant: the pending query without .limit(10)
NewFeedbackQueryUnlimited(st) ==
  LET S == PendingMatches(st)
  IN Docs(st, SetToSeqBy(S, [r \in S |-> st[r].timestamp]))

NewFeedbackQuery(st) ==
  LET S == PendingMatches(st)
  IN Docs(st, Take(SetToSeqBy(S, [r \in S |-> st[r].timestamp]), PendingLimit))

\* mutant: the retry query without its retryCount filter
FailedMatchesAnyCount(st) ==
  {r \in DOMAIN st : st[r].githubIssueError # NoMsg /\ st[r].githubIssueUrl = Null}

\* mutant: the retry query with retryCount <= ceiling
FailedMatchesInclusive(st) ==
  {r \in DOMAIN st : st[r].githubIssueError # NoMsg /\ st[r].githubIssueUrl = Null
                     /\ st[r].retryCount <= RetryCeiling}

\* failedFeedbackQuery: failed records below the retry ceiling
FailedMatches(st) ==
  {r \in DOMAIN st : st[r].githubIssueError # NoMsg /\ st[r].githubIssueUrl = Null
                     /\ st[r].retryCount < RetryCeiling}

Perms(S) ==
  {f \in [1..Cardinality(S) -> S] : \A i, j \in DOMAIN f : i # j => f[i] # f[j]}

\* the results .limit(RetryLimit) may return: the query has no orderBy, so which
\* RetryLimit of the matches come back, and in which order, is the index order
FailedFeedbackResults(st) ==
  LET S == FailedMatches(st)
      n == Min(RetryLimit, Cardinality(S))
  IN UNION {{Docs(st, ids) : ids \in Perms(T)} :
              T \in {T \in SUBSET S : Cardinality(T) = n}}

\* mutant: the success write-back keeps a githubIssueUrl that is already set
SuccessUpdateIfUnset(d, number, now) ==
  IF d.githubIssueUrl # Null THEN d
  ELSE [d EXCEPT !.githubIssueUrl = number, !.githubIssueNumber = number,
                 !.status = "Reportado", !.processedAt = now]

\* mutant: the success write-back also clears githubIssueError
SuccessUpdateClearingError(d, number, now) ==
  [d EXCEPT !.githubIssueUrl = number, !.githubIssueNumber = number,
            !.status = "Reportado", !.processedAt = now,
            !.githubIssueError = NoMsg]

\* mutant: the error write-back without the increment of retryCount
ErrorUpdateNoIncrement(d, message, now) ==
  [d EXCEPT !.githubIssueError = message, !.lastAttempt = now]

\* mutant: the retry reset also increments retryCount
RetryUpdateIncrementing(d, now) ==
  [d EXCEPT !.githubIssueError = NoMsg, !.lastRetry = now, !.retryCount = @ + 1]

\* mutant: the retry reset starts retryCount again from 0
RetryUpdateClearingCount(d, now) ==
  [d EXCEPT !.githubIssueError = NoMsg, !.lastRetry = now, !.retryCount = 0]

\* mutant: the retry reset stamps lastRetry but leaves githubIssueError set
RetryUpdateKeepingError(d, now) == [d EXCEPT !.lastRetry = now]

\* mutant: the retry reset also stamps processedAt
RetryUpdateStampingProcessed(d, now) ==
  [d EXCEPT !.githubIssueError = NoMsg, !.lastRetry = now, !.processedAt = now]

\* the three document updates of main()
SuccessUpdate(d, number, now) ==
  [d EXCEPT !.githubIssueUrl = number, !.githubIssueNumber = number,
            !.status = "Reportado", !.processedAt = now]

ErrorUpdate(d, message, now) ==
  [d EXCEPT !.githubIssueError = message, !.lastAttempt = now,
            !.retryCount = @ + 1]

RetryUpdate(d, now) ==
  [d EXCEPT !.githubIssueError = NoMsg, !.lastRetry = now]

\* ---- startup: the service account -------------------------------------------
RequiredFields == {"project_id", "private_key", "client_email"}

\* An environment is the set of things a start of the process does not find:
\* "path" (FIREBASE_SERVICE_ACCOUNT_PATH is unset), "file" (the file cannot be
\* read), "json" (it does not parse), and the required fields the parsed
\* service account lacks.  {} is an environment in which nothing is missing.
Environments == SUBSET ({"path", "file", "json"} \cup RequiredFields)

NoEnvironment == {}

\* mutant: the service account is not verified to have the required fields
ServiceAccountLoadsUnverified(env) ==
  "path" \notin env /\ "file" \notin env /\ "json" \notin env

\* the try block at the top of the script ends without process.exit(1)
ServiceAccountLoads(env) ==
  /\ "path" \notin env
  /\ "file" \notin env /\ "json" \notin env
  /\ \A f \in RequiredFields : f \notin env

LoadableEnvironments == {env \in Environments : ServiceAccountLoads(env)}

\* ---- initial states ---------------------------------------------------------
\* (payload is not a stored field: it is the text the submission path encoded)
AbsentBlob ==
  [exists |-> FALSE, totalChunks |-> 0, mimeType |-> "null", chunks |-> <<>>,
   payload |-> <<>>]

\* a screenshot of k chunks as the submission path stores it, of which the
\* first `stored` chunk documents have been written
ChunkedBlob(k, stored, mime) ==
  [exists |-> TRUE, totalChunks |-> k, mimeType |-> mime,
   chunks |-> [i \in 1..stored |-> [index |-> i - 1, data |-> <<i>>]],
   payload |-> [i \in 1..k |-> i]]

\* what the submission path has stored for a record: no screenshot, a
\* complete screenshot, or one whose last chunk is not written yet
Shapes == {"none", "complete", "partial"}

\* ("missing": a record whose reference points to no metadata document)
BlobOf(shape) ==
  IF shape \in {"none", "missing"} THEN AbsentBlob
  ELSE IF shape = "complete" THEN ChunkedBlob(MaxChunks, MaxChunks, "image/png")
  ELSE ChunkedBlob(MaxChunks, MaxChunks - 1, "image/png")

LocInit ==
  [base64Image |-> Unavailable, localScreenshotPath |-> "null", gistInfo |-> Null,
   issueBody |-> "null", issueTitle |-> NoTitle, labels |-> <<>>,
   response |-> Null, error |-> NoMsg]

\* what a run has done so far: create-issue calls and document updates per
\* record, the records whose create-issue call returned / threw, the records
\* reset, whether every external call succeeded, the records pending at start,
\* the environment the process started in, whether main() issued its query
HistInit(ids) ==
  [creates |-> [r \in ids |-> 0], updates |-> [r \in ids |-> 0],
   created |-> {}, threw |-> {}, resets |-> {}, allOk |-> TRUE,
   pendingAtStart |-> {}, env |-> NoEnvironment, queried |-> FALSE]

\* the report exporter before its first run: no screenshot saved, no file written
ExporterInit ==
  [pc |-> "idle", docs |-> <<>>, tasks |-> <<>>, runs |-> 0, exitCode |-> NoExit,
   screenshots |-> {}, files |-> {}]

\* every record is new (pending, never attempted); record r is the r-th
\* submission, so submission times are distinct and ascending in r; its
\* screenshot, if any, is screenshot r
InitWith(shapes, runnerSet, maxRuns, maxFaults) ==
  /\ \E sh \in shapes :
       /\ store = [r \in DOMAIN sh |->
                     NewRecord(r, IF sh[r] = "none" THEN Null ELSE r)]
       /\ blobs = [r \in DOMAIN sh |-> BlobOf(sh[r])]
  /\ issues = <<>>
  /\ logFile = <<>>
  /\ clock = 0
  /\ cfg = [runners |-> runnerSet, maxRuns |-> maxRuns, maxFaults |-> maxFaults]
  /\ runs = 0
  /\ faults = 0
  /\ attempts = [r \in DOMAIN store |-> 0]
  /\ pc = [p \in runnerSet |-> "idle"]
  /\ snap = [p \in runnerSet |-> <<>>]
  /\ failedSnap = [p \in runnerSet |-> <<>>]
  /\ idx = [p \in runnerSet |-> 0]
  /\ loc = [p \in runnerSet |-> LocInit]
  /\ exitCode = [p \in runnerSet |-> NoExit]
  /\ hist = [p \in runnerSet |-> HistInit(DOMAIN store)]
  /\ exporter = ExporterInit

Init == InitWith([1..NumRecords -> Shapes], {1}, MaxRuns, MaxFaults)

\* ---- main(): one runner ------------------------------------------------------
Doc(p) == snap[p][idx[p]]

CanFail == faults < cfg.maxFaults

\* where iteration i of `for (const doc of snapshot.docs)` starts
Enter(docs, i) ==
  IF i > Len(docs) THEN "retryq"
  ELSE IF docs[i].data.screenshot_ref = Null THEN "create" ELSE "fetch"

Fault(p) ==
  /\ CanFail
  /\ faults' = faults + 1

Noted(p, h) == hist' = [hist EXCEPT ![p] = h]

Failed(p) == Noted(p, [hist[p] EXCEPT !.allOk = FALSE])

Updated(p, id) ==
  Noted(p, [hist[p] EXCEPT !.updates[id] = @ + 1])

\* the loop moves on to the next document of the snapshot
NextDoc(p) ==
  /\ idx' = [idx EXCEPT ![p] = @ + 1]
  /\ pc' = [pc EXCEPT ![p] = Enter(snap[p], idx[p] + 1)]
  /\ loc' = [loc EXCEPT ![p] = LocInit]

\* mutant: an exception that escapes main() is logged and the process exits with 0
AbortExitZero(p) ==
  /\ pc' = [pc EXCEPT ![p] = "idle"]
  /\ exitCode' = [exitCode EXCEPT ![p] = 0]
  /\ idx' = [idx EXCEPT ![p] = 0]
  /\ loc' = [loc EXCEPT ![p] = LocInit]

\* an exception escapes main(): .catch() exits with 1
Abort(p) ==
  /\ pc' = [pc EXCEPT ![p] = "idle"]
  /\ exitCode' = [exitCode EXCEPT ![p] = 1]
  /\ idx' = [idx EXCEPT ![p] = 0]
  /\ loc' = [loc EXCEPT ![p] = LocInit]

\* the history of a run that starts in environment env and issues its query
HistStarted(env) ==
  [HistInit(DOMAIN store) EXCEPT !.pendingAtStart = PendingMatches(store),
                                 !.env = env, !.queried = TRUE]

\* node starts and the service account does not load: process.exit(1) before
\* admin.initializeApp and main()
StartupFail(p) ==
  /\ pc[p] = "idle"
  /\ runs < cfg.maxRuns
  /\ runs' = runs + 1
  /\ \E env \in Environments :
       /\ ~ServiceAccountLoads(env)
       /\ Noted(p, [HistInit(DOMAIN store) EXCEPT !.env = env])
  /\ snap' = [snap EXCEPT ![p] = <<>>]
  /\ failedSnap' = [failedSnap EXCEPT ![p] = <<>>]
  /\ exitCode' = [exitCode EXCEPT ![p] = 1]
  /\ UNCHANGED <<exporter, store, blobs, issues, logFile, clock, cfg, faults,
                 pc, idx, loc, attempts>>

\* node starts; main() awaits newFeedbackQuery.get()
StartRun(p) ==
  /\ pc[p] = "idle"
  /\ runs < cfg.maxRuns
  /\ runs' = runs + 1
  /\ clock' = clock + 1
  /\ snap' = [snap EXCEPT ![p] = NewFeedbackQuery(store)]
  /\ failedSnap' = [failedSnap EXCEPT ![p] = <<>>]
  /\ idx' = [idx EXCEPT ![p] = 1]
  /\ pc' = [pc EXCEPT ![p] = Enter(snap'[p], 1)]
  /\ loc' = [loc EXCEPT ![p] = LocInit]
  /\ exitCode' = [exitCode EXCEPT ![p] = NoExit]
  /\ \E env \in LoadableEnvironments : Noted(p, HistStarted(env))
  /\ UNCHANGED <<exporter, store, blobs, issues, logFile, cfg, faults, attempts>>

StartRunFail(p) ==
  /\ pc[p] = "idle"
  /\ runs < cfg.maxRuns
  /\ Fault(p)
  /\ runs' = runs + 1
  /\ clock' = clock + 1
  /\ snap' = [snap EXCEPT ![p] = <<>>]
  /\ failedSnap' = [failedSnap EXCEPT ![p] = <<>>]
  /\ Abort(p)
  /\ \E env \in LoadableEnvironments :
       Noted(p, [HistStarted(env) EXCEPT !.allOk = FALSE])
  /\ UNCHANGED <<exporter, store, blobs, issues, logFile, cfg, attempts>>

\* mutant: an unavailable screenshot is treated as a failure of the record
ReconstructStrict(p) ==
  /\ pc[p] = "fetch"
  /\ LET img == ReconstructScreenshot(blobs, Doc(p).data.screenshot_ref)
     IN /\ loc' = [loc EXCEPT ![p].base64Image = img,
                              ![p].error = IF img.ok THEN NoMsg ELSE "no screenshot"]
        /\ pc' = [pc EXCEPT ![p] = IF img.ok THEN "save" ELSE "catch"]
  /\ UNCHANGED <<exporter, store, blobs, issues, logFile, clock, cfg, runs, faults,
                 snap, failedSnap, idx, exitCode, attempts, hist>>

\* const base64Image = await reconstructScreenshot(screenshot_ref)
Reconstruct(p) ==
  /\ pc[p] = "fetch"
  /\ LET img == ReconstructScreenshot(blobs, Doc(p).data.screenshot_ref)
     IN /\ loc' = [loc EXCEPT ![p].base64Image = img]
        /\ pc' = [pc EXCEPT ![p] = IF img.ok THEN "save" ELSE "create"]
  /\ UNCHANGED <<exporter, store, blobs, issues, logFile, clock, cfg, runs, faults,
                 snap, failedSnap, idx, exitCode, attempts, hist>>

\* a store read inside reconstructScreenshot throws: caught there, null returned
ReconstructError(p) ==
  /\ pc[p] = "fetch"
  /\ Fault(p)
  /\ Failed(p)
  /\ loc' = [loc EXCEPT ![p].base64Image = Unavailable]
  /\ pc' = [pc EXCEPT ![p] = "create"]
  /\ UNCHANGED <<exporter, store, blobs, issues, logFile, clock, cfg, runs,
                 snap, failedSnap, idx, exitCode, attempts>>

\* localScreenshotPath = await saveScreenshotLocally(base64Image, feedbackId)
\* (the path is feedback_<id>.<extension>; the model keeps the extension)
SaveLocally(p) ==
  /\ pc[p] = "save"
  /\ loc' = [loc EXCEPT ![p].localScreenshotPath = Extension(loc[p].base64Image.mimeType)]
  /\ pc' = [pc EXCEPT ![p] = "gist"]
  /\ UNCHANGED <<exporter, store, blobs, issues, logFile, clock, cfg, runs, faults,
                 snap, failedSnap, idx, exitCode, attempts, hist>>

SaveLocallyFail(p) ==
  /\ pc[p] = "save"
  /\ Fault(p)
  /\ Failed(p)
  /\ pc' = [pc EXCEPT ![p] = "gist"]
  /\ UNCHANGED <<exporter, store, blobs, issues, logFile, clock, cfg, runs,
                 snap, failedSnap, idx, loc, exitCode, attempts>>

\* gistInfo = await uploadScreenshotToGist(base64Image, feedbackId)
UploadGist(p) ==
  /\ pc[p] = "gist"
  /\ loc' = [loc EXCEPT ![p].gistInfo = Doc(p).id]
  /\ pc' = [pc EXCEPT ![p] = "create"]
  /\ UNCHANGED <<exporter, store, blobs, issues, logFile, clock, cfg, runs, faults,
                 snap, failedSnap, idx, exitCode, attempts, hist>>

\* mutant: a failed upload is thrown to the catch block of the record
UploadGistFailThrowing(p) ==
  /\ pc[p] = "gist"
  /\ Fault(p)
  /\ Failed(p)
  /\ loc' = [loc EXCEPT ![p].error = "gist failed"]
  /\ pc' = [pc EXCEPT ![p] = "catch"]
  /\ UNCHANGED <<exporter, store, blobs, issues, logFile, clock, cfg, runs,
                 snap, failedSnap, idx, exitCode, attempts>>

\* octokit.gists.create throws: caught in uploadScreenshotToGist, null returned
UploadGistFail(p) ==
  /\ pc[p] = "gist"
  /\ Fault(p)
  /\ Failed(p)
  /\ pc' = [pc EXCEPT ![p] = "create"]
  /\ UNCHANGED <<exporter, store, blobs, issues, logFile, clock, cfg, runs,
                 snap, failedSnap, idx, loc, exitCode, attempts>>

\* the screenshot section of the issue body
ScreenshotMarkdown(l) ==
  IF ~l.base64Image.ok THEN ""
  ELSE IF l.gistInfo # Null THEN "### Screenshot"
  ELSE "*Screenshot was available but could not be uploaded*"

\* const response = await octokit.issues.create({...})
CreateIssue(p) ==
  /\ pc[p] = "create"
  /\ issues' = Append(issues, Doc(p).id)
  /\ loc' = [loc EXCEPT ![p].response = Len(issues) + 1,
                        ![p].issueBody = ScreenshotMarkdown(loc[p]),
                        ![p].issueTitle = IssueTitle(Doc(p).data.text, Doc(p).id),
                        ![p].labels = IssueLabels(Doc(p).data.platform)]
  /\ attempts' = [attempts EXCEPT ![Doc(p).id] = @ + 1]
  /\ Noted(p, [hist[p] EXCEPT !.creates[Doc(p).id] = @ + 1,
                              !.created = @ \cup {Doc(p).id}])
  /\ pc' = [pc EXCEPT ![p] = "update"]
  /\ UNCHANGED <<exporter, store, blobs, logFile, clock, cfg, runs, faults,
                 snap, failedSnap, idx, exitCode>>

\* mutant: when create-issue throws the loop goes on to the next document
\* without the error write-back
CreateIssueFailSkipping(p) ==
  /\ pc[p] = "create"
  /\ Fault(p)
  /\ attempts' = [attempts EXCEPT ![Doc(p).id] = @ + 1]
  /\ Noted(p, [hist[p] EXCEPT !.creates[Doc(p).id] = @ + 1,
                              !.threw = @ \cup {Doc(p).id}, !.allOk = FALSE])
  /\ NextDoc(p)
  /\ UNCHANGED <<exporter, store, blobs, issues, logFile, clock, cfg, runs,
                 snap, failedSnap, exitCode>>

\* octokit.issues.create throws
CreateIssueFail(p) ==
  /\ pc[p] = "create"
  /\ Fault(p)
  /\ loc' = [loc EXCEPT ![p].error = "create failed"]
  /\ attempts' = [attempts EXCEPT ![Doc(p).id] = @ + 1]
  /\ Noted(p, [hist[p] EXCEPT !.creates[Doc(p).id] = @ + 1,
                              !.threw = @ \cup {Doc(p).id}, !.allOk = FALSE])
  /\ pc' = [pc EXCEPT ![p] = "catch"]
  /\ UNCHANGED <<exporter, store, blobs, issues, logFile, clock, cfg, runs,
                 snap, failedSnap, idx, exitCode>>

\* await ...doc(feedbackId).update({githubIssueUrl, githubIssueNumber, ...})
SuccessWriteBack(p) ==
  /\ pc[p] = "update"
  /\ store' = [store EXCEPT ![Doc(p).id] = SuccessUpdate(@, loc[p].response, clock)]
  /\ Updated(p, Doc(p).id)
  /\ pc' = [pc EXCEPT ![p] = "log"]
  /\ UNCHANGED <<exporter, blobs, issues, logFile, clock, cfg, runs, faults,
                 snap, failedSnap, idx, loc, exitCode, attempts>>

SuccessWriteBackFail(p) ==
  /\ pc[p] = "update"
  /\ Fault(p)
  /\ Failed(p)
  /\ loc' = [loc EXCEPT ![p].error = "update failed"]
  /\ pc' = [pc EXCEPT ![p] = "catch"]
  /\ UNCHANGED <<exporter, store, blobs, issues, logFile, clock, cfg, runs,
                 snap, failedSnap, idx, exitCode, attempts>>

\* updateFeedbackLog(logEntry): the log file, then the HTML index
UpdateFeedbackLog(p) ==
  /\ pc[p] = "log"
  /\ logFile' = Append(logFile, Doc(p).id)
  /\ NextDoc(p)
  /\ UNCHANGED <<exporter, store, blobs, issues, clock, cfg, runs, faults,
                 snap, failedSnap, exitCode, attempts, hist>>

\* the existing log cannot be read or parsed: caught, the log restarts empty
UpdateFeedbackLogCorrupt(p) ==
  /\ pc[p] = "log"
  /\ Fault(p)
  /\ Failed(p)
  /\ logFile' = <<Doc(p).id>>
  /\ NextDoc(p)
  /\ UNCHANGED <<exporter, store, blobs, issues, clock, cfg, runs,
                 snap, failedSnap, exitCode, attempts>>

\* fs.writeFileSync throws, for the log file or for the HTML index after it
UpdateFeedbackLogFail(p) ==
  /\ pc[p] = "log"
  /\ Fault(p)
  /\ Failed(p)
  /\ logFile' \in {logFile, Append(logFile, Doc(p).id)}
  /\ loc' = [loc EXCEPT ![p].error = "log failed"]
  /\ pc' = [pc EXCEPT ![p] = "catch"]
  /\ UNCHANGED <<exporter, store, blobs, issues, clock, cfg, runs,
                 snap, failedSnap, idx, exitCode, attempts>>

\* catch (error): await ...doc(feedbackId).update({githubIssueError, ...})
ErrorWriteBack(p) ==
  /\ pc[p] = "catch"
  /\ store' = [store EXCEPT ![Doc(p).id] = ErrorUpdate(@, loc[p].error, clock)]
  /\ Updated(p, Doc(p).id)
  /\ NextDoc(p)
  /\ UNCHANGED <<exporter, blobs, issues, logFile, clock, cfg, runs, faults,
                 snap, failedSnap, exitCode, attempts>>

\* the update in the catch block throws: nothing catches it inside main()
ErrorWriteBackFail(p) ==
  /\ pc[p] = "catch"
  /\ Fault(p)
  /\ Failed(p)
  /\ Abort(p)
  /\ UNCHANGED <<exporter, store, blobs, issues, logFile, clock, cfg, runs,
                 snap, failedSnap, attempts>>

\* const failedFeedback = await failedFeedbackQuery.get()
RetryQuery(p) ==
  /\ pc[p] = "retryq"
  /\ \E docs \in FailedFeedbackResults(store) :
        failedSnap' = [failedSnap EXCEPT ![p] = docs]
  /\ idx' = [idx EXCEPT ![p] = 1]
  /\ pc' = [pc EXCEPT ![p] = "reset"]
  /\ UNCHANGED <<exporter, store, blobs, issues, logFile, clock, cfg, runs, faults,
                 snap, loc, exitCode, attempts, hist>>

RetryQueryFail(p) ==
  /\ pc[p] = "retryq"
  /\ Fault(p)
  /\ Failed(p)
  /\ Abort(p)
  /\ UNCHANGED <<exporter, store, blobs, issues, logFile, clock, cfg, runs,
                 snap, failedSnap, attempts>>

\* await doc.ref.update({githubIssueError: null, lastRetry})
RetryReset(p) ==
  /\ pc[p] = "reset"
  /\ idx[p] <= Len(failedSnap[p])
  /\ LET id == failedSnap[p][idx[p]].id
     IN /\ store' = [store EXCEPT ![id] = RetryUpdate(@, clock)]
        /\ Noted(p, [hist[p] EXCEPT !.updates[id] = @ + 1, !.resets = @ \cup {id}])
  /\ idx' = [idx EXCEPT ![p] = @ + 1]
  /\ UNCHANGED <<exporter, blobs, issues, logFile, clock, cfg, runs, faults,
                 pc, snap, failedSnap, loc, exitCode, attempts>>

RetryResetFail(p) ==
  /\ pc[p] = "reset"
  /\ idx[p] <= Len(failedSnap[p])
  /\ Fault(p)
  /\ Failed(p)
  /\ Abort(p)
  /\ UNCHANGED <<exporter, store, blobs, issues, logFile, clock, cfg, runs,
                 snap, failedSnap, attempts>>

\* main() resolves: .then() exits with 0
Finish(p) ==
  /\ pc[p] = "reset"
  /\ idx[p] > Len(failedSnap[p])
  /\ pc' = [pc EXCEPT ![p] = "idle"]
  /\ exitCode' = [exitCode EXCEPT ![p] = 0]
  /\ idx' = [idx EXCEPT ![p] = 0]
  /\ UNCHANGED <<exporter, store, blobs, issues, logFile, clock, cfg, runs, faults,
                 snap, failedSnap, loc, attempts, hist>>

Next ==
  \/ \E p \in cfg.runners : StartRun(p)
  \/ \E p \in cfg.runners : StartRunFail(p)
  \/ \E p \in cfg.runners : Reconstruct(p)
  \/ \E p \in cfg.runners : ReconstructError(p)
  \/ \E p \in cfg.runners : SaveLocally(p)
  \/ \E p \in cfg.runners : SaveLocallyFail(p)
  \/ \E p \in cfg.runners : UploadGist(p)
  \/ \E p \in cfg.runners : UploadGistFail(p)
  \/ \E p \in cfg.runners : CreateIssue(p)
  \/ \E p \in cfg.runners : CreateIssueFail(p)
  \/ \E p \in cfg.runners : SuccessWriteBack(p)
  \/ \E p \in cfg.runners : SuccessWriteBackFail(p)
  \/ \E p \in cfg.runners : UpdateFeedbackLog(p)
  \/ \E p \in cfg.runners : UpdateFeedbackLogCorrupt(p)
  \/ \E p \in cfg.runners : UpdateFeedbackLogFail(p)
  \/ \E p \in cfg.runners : ErrorWriteBack(p)
  \/ \E p \in cfg.runners : ErrorWriteBackFail(p)
  \/ \E p \in cfg.runners : RetryQuery(p)
  \/ \E p \in cfg.runners : RetryQueryFail(p)
  \/ \E p \in cfg.runners : RetryReset(p)
  \/ \E p \in cfg.runners : RetryResetFail(p)
  \/ \E p \in cfg.runners : Finish(p)

Spec == Init /\ [][Next]_vars

\* one store, a longer history: more runs and more failures than Spec
LongRuns == 4
LongFaults == 4

InitLong == InitWith([1..NumRecords -> Shapes], {1}, LongRuns, LongFaults)

SpecLong == InitLong /\ [][Next]_vars

\* two runs of the job overlapping in time (two runner processes on one store)
OverlapRunners == {1, 2}
OverlapRecords == 1
OverlapFaults == 2

\* (what the overlap is about does not depend on how a screenshot is stored:
\* a record has none or a complete one)
OverlapShapes == {"none", "complete"}

InitOverlap ==
  InitWith([1..OverlapRecords -> OverlapShapes], OverlapRunners,
           Cardinality(OverlapRunners), OverlapFaults)

\* runs in which every external call succeeds, over a store with more pending
\* records than the pending query returns; every record has a complete
\* screenshot but at most one
BatchRecords == 11
BatchRuns == 1

BatchShapes ==
  {[r \in 1..BatchRecords |-> IF r = d THEN s ELSE "complete"] :
     d \in 0..BatchRecords, s \in {"none", "partial"}}

InitBatch == InitWith(BatchShapes, {1}, BatchRuns, 0)

NextAllSucceed ==
  \/ \E p \in cfg.runners : StartRun(p)
  \/ \E p \in cfg.runners : Reconstruct(p)
  \/ \E p \in cfg.runners : SaveLocally(p)
  \/ \E p \in cfg.runners : UploadGist(p)
  \/ \E p \in cfg.runners : CreateIssue(p)
  \/ \E p \in cfg.runners : SuccessWriteBack(p)
  \/ \E p \in cfg.runners : UpdateFeedbackLog(p)
  \/ \E p \in cfg.runners : RetryQuery(p)
  \/ \E p \in cfg.runners : Finish(p)

SpecBatch == InitBatch /\ [][NextAllSucceed]_vars

SpecOverlap == InitOverlap /\ [][Next]_vars

\* two overlapping runs in which every external call succeeds
RaceRecords == 2

InitRace ==
  InitWith([1..RaceRecords -> Shapes], OverlapRunners, Cardinality(OverlapRunners), 0)

SpecRace == InitRace /\ [][NextAllSucceed]_vars

\* records whose screenshot reference may point to no metadata document
SoftRecords == 1
SoftRuns == 2
SoftFaults == 2

SoftShapes == {"none", "missing", "partial", "complete"}

InitSoft == InitWith([1..SoftRecords -> SoftShapes], {1}, SoftRuns, SoftFaults)

SpecSoft == InitSoft /\ [][Next]_vars

\* starts of the process in any environment, valid or not
StartupRecords == 1
StartupRuns == 2
StartupFaults == 2

InitStartup ==
  InitWith([1..StartupRecords -> Shapes], {1}, StartupRuns, StartupFaults)

NextStartup ==
  \/ Next
  \/ \E p \in cfg.runners : StartupFail(p)

SpecStartup == InitStartup /\ [][NextStartup]_vars

\* ---- the report exporter (src/unnamed/part_000) -----------------------------------
ExportRecords == 2
ExportRuns == 1
ExportFaults == 2

\* feedbackQuery: the most recent ExportLimit records, whatever their status
ExportQuery(st) ==
  Docs(st, Take(SetToSeqBy(DOMAIN st, [r \in DOMAIN st |-> st[r].timestamp]),
                ExportLimit))

\* the async callback of snapshot.docs.map for one document: where it stands,
\* the image it got, and data.localScreenshotPath (Null while not set)
NewTask(doc) ==
  [pc |-> IF doc.data.screenshot_ref # Null THEN "fetch" ELSE "done",
   base64Data |-> Unavailable, localScreenshotPath |-> Null]

\* the element of feedbackItems a finished callback returns
FeedbackItem(doc, task) ==
  [id |-> doc.id, data |-> doc.data, localScreenshotPath |-> task.localScreenshotPath]

ExporterVars ==
  <<store, blobs, issues, logFile, clock, cfg, runs, pc, snap, failedSnap, idx,
    loc, exitCode, attempts, hist>>

\* an exception reaches the catch of main(): process.exit(1)
ExportAbort == [exporter EXCEPT !.pc = "idle", !.exitCode = 1]

\* node starts; main() awaits feedbackQuery.get() and starts one callback per doc
ExportStart ==
  /\ exporter.pc = "idle"
  /\ exporter.runs < ExportRuns
  /\ LET docs == ExportQuery(store)
     IN exporter' = [exporter EXCEPT !.pc = "map", !.docs = docs,
                                     !.tasks = [i \in 1..Len(docs) |-> NewTask(docs[i])],
                                     !.runs = @ + 1, !.exitCode = NoExit]
  /\ UNCHANGED <<ExporterVars, faults>>

ExportStartFail ==
  /\ exporter.pc = "idle"
  /\ exporter.runs < ExportRuns
  /\ CanFail
  /\ faults' = faults + 1
  /\ exporter' = [ExportAbort EXCEPT !.docs = <<>>, !.tasks = <<>>, !.runs = @ + 1]
  /\ UNCHANGED ExporterVars

\* const base64Data = await reconstructScreenshot(data.screenshot_ref)
ExportReconstruct(i) ==
  /\ exporter.pc = "map"
  /\ exporter.tasks[i].pc = "fetch"
  /\ LET img == ReconstructScreenshot(blobs, exporter.docs[i].data.screenshot_ref)
     IN exporter' = [exporter EXCEPT !.tasks[i].base64Data = img,
                                     !.tasks[i].pc = IF img.ok THEN "save" ELSE "done"]
  /\ UNCHANGED <<ExporterVars, faults>>

\* a store read inside reconstructScreenshot throws: caught there, null returned
ExportReconstructError(i) ==
  /\ exporter.pc = "map"
  /\ exporter.tasks[i].pc = "fetch"
  /\ CanFail
  /\ faults' = faults + 1
  /\ exporter' = [exporter EXCEPT !.tasks[i].pc = "done"]
  /\ UNCHANGED ExporterVars

\* mutant: the callbacks share one feedbackId, the id of the last document
ExportSaveSharedId(i) ==
  /\ exporter.pc = "map"
  /\ exporter.tasks[i].pc = "save"
  /\ LET feedbackId == exporter.docs[Len(exporter.docs)].id
     IN exporter' = [exporter EXCEPT !.tasks[i].pc = "done",
                                     !.tasks[i].localScreenshotPath = feedbackId,
                                     !.screenshots = @ \cup {feedbackId}]
  /\ UNCHANGED <<ExporterVars, faults>>

\* mutant: the exporter marks the record it has saved a screenshot for
ExportSaveMarkingRecord(i) ==
  /\ exporter.pc = "map"
  /\ exporter.tasks[i].pc = "save"
  /\ exporter' = [exporter EXCEPT !.tasks[i].pc = "done",
                                  !.tasks[i].localScreenshotPath = exporter.docs[i].id,
                                  !.screenshots = @ \cup {exporter.docs[i].id}]
  /\ store' = [store EXCEPT ![exporter.docs[i].id].status = "exported"]
  /\ UNCHANGED <<blobs, issues, logFile, clock, cfg, runs, faults, pc, snap,
                 failedSnap, idx, loc, exitCode, attempts, hist>>

\* const localPath = await saveScreenshotLocally(base64Data, feedbackId): the
\* file screenshots/feedback_<id>.png is written, its path is the result
ExportSave(i) ==
  /\ exporter.pc = "map"
  /\ exporter.tasks[i].pc = "save"
  /\ exporter' = [exporter EXCEPT !.tasks[i].pc = "done",
                                  !.tasks[i].localScreenshotPath = exporter.docs[i].id,
                                  !.screenshots = @ \cup {exporter.docs[i].id}]
  /\ UNCHANGED <<ExporterVars, faults>>

\* mutant: an exception of fs.writeFileSync in saveScreenshotLocally reaches
\* the catch of main()
ExportSaveFailAborting(i) ==
  /\ exporter.pc = "map"
  /\ exporter.tasks[i].pc = "save"
  /\ CanFail
  /\ faults' = faults + 1
  /\ exporter' = ExportAbort
  /\ UNCHANGED ExporterVars

\* fs.writeFileSync throws in saveScreenshotLocally: caught there, null returned
ExportSaveFail(i) ==
  /\ exporter.pc = "map"
  /\ exporter.tasks[i].pc = "save"
  /\ CanFail
  /\ faults' = faults + 1
  /\ exporter' = [exporter EXCEPT !.tasks[i].pc = "done"]
  /\ UNCHANGED ExporterVars

\* fs.writeFileSync(path, ...): the file of that name is created or replaced
WriteFile(files, name, items) ==
  {f \in files : f.name # name} \cup
    {[name |-> name, total_items |-> Len(items), feedback |-> items]}

AllTasksDone == \A i \in 1..Len(exporter.tasks) : exporter.tasks[i].pc = "done"

FeedbackItems ==
  [i \in 1..Len(exporter.docs) |-> FeedbackItem(exporter.docs[i], exporter.tasks[i])]

\* Promise.all resolves; feedback_export.json is written
ExportWriteJson ==
  /\ exporter.pc = "map"
  /\ AllTasksDone
  /\ exporter' = [exporter EXCEPT
                    !.pc = "html",
                    !.files = WriteFile(@, "feedback_export.json", FeedbackItems)]
  /\ UNCHANGED <<ExporterVars, faults>>

ExportWriteJsonFail ==
  /\ exporter.pc = "map"
  /\ AllTasksDone
  /\ CanFail
  /\ faults' = faults + 1
  /\ exporter' = ExportAbort
  /\ UNCHANGED ExporterVars

\* createHtmlIndex(feedbackItems)
ExportWriteHtml ==
  /\ exporter.pc = "html"
  /\ exporter' = [exporter EXCEPT
                    !.pc = "summary",
                    !.files = WriteFile(@, "index.html", FeedbackItems)]
  /\ UNCHANGED <<ExporterVars, faults>>

ExportWriteHtmlFail ==
  /\ exporter.pc = "html"
  /\ CanFail
  /\ faults' = faults + 1
  /\ exporter' = ExportAbort
  /\ UNCHANGED ExporterVars

\* export_summary.txt is written; main() resolves and .then() exits with 0
ExportWriteSummary ==
  /\ exporter.pc = "summary"
  /\ exporter' = [exporter EXCEPT
                    !.pc = "idle", !.exitCode = 0,
                    !.files = WriteFile(@, "export_summary.txt", FeedbackItems)]
  /\ UNCHANGED <<ExporterVars, faults>>

ExportWriteSummaryFail ==
  /\ exporter.pc = "summary"
  /\ CanFail
  /\ faults' = faults + 1
  /\ exporter' = ExportAbort
  /\ UNCHANGED ExporterVars

NextExport ==
  \/ ExportStart
  \/ ExportStartFail
  \/ \E i \in 1..Len(exporter.tasks) : ExportReconstruct(i)
  \/ \E i \in 1..Len(exporter.tasks) : ExportReconstructError(i)
  \/ \E i \in 1..Len(exporter.tasks) : ExportSave(i)
  \/ \E i \in 1..Len(exporter.tasks) : ExportSaveFail(i)
  \/ ExportWriteJson
  \/ ExportWriteJsonFail
  \/ ExportWriteHtml
  \/ ExportWriteHtmlFail
  \/ ExportWriteSummary
  \/ ExportWriteSummaryFail

\* the states a record can be in when the exporter runs: never attempted,
\* failed once, or synced (issue r for record r)
RecordStates == {"pending", "failed", "synced"}

\* the issues of the synced records, in record order
IssuesOf(st) ==
  LET S == {r \in DOMAIN st : st[r] = "synced"}
  IN SetToSeqBy(S, [r \in S |-> 0 - r])

RecordIn(st, r, ref) ==
  IF st[r] = "pending" THEN NewRecord(r, ref)
  ELSE IF st[r] = "failed" THEN ErrorUpdate(NewRecord(r, ref), "create failed", 1)
  ELSE SuccessUpdate(NewRecord(r, ref),
                     Cardinality({q \in DOMAIN st : st[q] = "synced" /\ q <= r}), 1)

InitExport ==
  /\ \E st \in [1..ExportRecords -> RecordStates], sh \in [1..ExportRecords -> SoftShapes] :
       /\ store = [r \in 1..ExportRecords |->
                     RecordIn(st, r, IF sh[r] = "none" THEN Null ELSE r)]
       /\ blobs = [r \in 1..ExportRecords |-> BlobOf(sh[r])]
       /\ issues = IssuesOf(st)
       /\ attempts = [r \in 1..ExportRecords |-> IF st[r] = "pending" THEN 0 ELSE 1]
  /\ logFile = <<>>
  /\ clock = 1
  /\ cfg = [runners |-> {1}, maxRuns |-> 0, maxFaults |-> ExportFaults]
  /\ runs = 0
  /\ faults = 0
  /\ pc = <<"idle">>
  /\ snap = <<(<<>>)>>
  /\ failedSnap = <<(<<>>)>>
  /\ idx = <<0>>
  /\ loc = <<LocInit>>
  /\ exitCode = <<NoExit>>
  /\ hist = <<HistInit(1..ExportRecords)>>
  /\ exporter = ExporterInit

SpecExport == InitExport /\ [][NextExport]_vars

\* ---- the two stages of one run, over any store -----------------------------------
OrderRecords == 2

\* the primary stage when no call throws: every document of the pending
\* snapshot gets the next issue and the success write-back; `made` issues
\* exist before it
RECURSIVE PrimaryStage(_, _, _, _)
PrimaryStage(st, docs, made, now) ==
  IF docs = <<>> THEN [store |-> st, created |-> <<>>]
  ELSE LET id == Head(docs).id
           rest == PrimaryStage([st EXCEPT ![id] = SuccessUpdate(@, made + 1, now)],
                                Tail(docs), made + 1, now)
       IN [store |-> rest.store, created |-> <<id>> \o rest.created]

\* the retry-reset stage over the documents its query returned
RECURSIVE RetryStage(_, _, _)
RetryStage(st, docs, now) ==
  IF docs = <<>> THEN st
  ELSE RetryStage([st EXCEPT ![Head(docs).id] = RetryUpdate(@, now)], Tail(docs), now)

\* what main() leaves when no call throws: the primary stage, then the retry
\* stage (the results differ with the result of the retry query)
StagesInCodeOrder(st, made, now) ==
  LET a == PrimaryStage(st, NewFeedbackQuery(st), made, now)
  IN {[store |-> RetryStage(a.store, docs, now), created |-> a.created] :
        docs \in FailedFeedbackResults(a.store)}

\* one run over a store whose records are pending, failed or synced; the
\* store the run started from is kept in cfg.initial
InitOrder ==
  /\ \E st \in [1..OrderRecords -> RecordStates],
        sh \in [1..OrderRecords -> OverlapShapes] :
       /\ store = [r \in 1..OrderRecords |->
                     RecordIn(st, r, IF sh[r] = "none" THEN Null ELSE r)]
       /\ blobs = [r \in 1..OrderRecords |-> BlobOf(sh[r])]
       /\ issues = IssuesOf(st)
       /\ attempts = [r \in 1..OrderRecords |-> IF st[r] = "pending" THEN 0 ELSE 1]
  /\ logFile = <<>>
  /\ clock = 1
  /\ cfg = [runners |-> {1}, maxRuns |-> 1, maxFaults |-> 0, initial |-> store]
  /\ runs = 0
  /\ faults = 0
  /\ pc = <<"idle">>
  /\ snap = <<(<<>>)>>
  /\ failedSnap = <<(<<>>)>>
  /\ idx = <<0>>
  /\ loc = <<LocInit>>
  /\ exitCode = <<NoExit>>
  /\ hist = <<HistInit(1..OrderRecords)>>
  /\ exporter = ExporterInit

\* no call throws; the retry query may find records to reset
NextOrder ==
  \/ NextAllSucceed
  \/ \E p \in cfg.runners : RetryReset(p)

SpecOrder == InitOrder /\ [][NextOrder]_vars

\* ---- the workflow's entry script (src/scripts/sync-firestore-to-github.js) --------
\* Its main() queries with one equality filter and a limit, filters and sorts
\* in memory, and its loop over the documents only logs the feedback id; the
\* retry stage filters retryCount in memory.  The job is started again and
\* again (runs and server time are not counted here).
ScriptRecords == 11
ScriptFaults == 1

\* the results a query with .limit(n) and no orderBy may return for the
\* matches S: which n of them, and in which order, is the index order
LimitedResults(st, S, n) ==
  UNION {{Docs(st, ids) : ids \in Perms(T)} :
           T \in {T \in SUBSET S : Cardinality(T) = Min(n, Cardinality(S))}}

\* newFeedbackQuery: where('githubIssueUrl', '==', null).limit(10)
UrlNullMatches(st) == {r \in DOMAIN st : st[r].githubIssueUrl = Null}

\* validDocs.sort((a, b) => timestampB - timestampA): the i-th element is the
\* one with i - 1 more recent elements (timestamps are distinct)
SortByTimestampDesc(st, S) ==
  [i \in 1..Cardinality(S) |->
     CHOOSE r \in S :
       Cardinality({q \in S : st[q].timestamp > st[r].timestamp}) = i - 1]

\* validDocs: the documents of the snapshot with githubIssueError === null,
\* sorted by timestamp, most recent first
ScriptValidDocs(st) ==
  LET U == UrlNullMatches(st)
  IN {Docs(st, SortByTimestampDesc(st, {r \in T : st[r].githubIssueError = NoMsg})) :
        T \in {T \in SUBSET U : Cardinality(T) = Min(PendingLimit, Cardinality(U))}}

\* failedFeedbackQuery: where url == null, where error != null, limit(5)
ScriptFailedMatches(st) ==
  {r \in DOMAIN st : st[r].githubIssueUrl = Null /\ st[r].githubIssueError # NoMsg}

BelowCeiling(doc) == doc.data.retryCount < RetryCeiling

\* docsToRetry: the documents of failedFeedback with retryCount < 3
ScriptDocsToRetry(st) ==
  {SelectSeq(docs, BelowCeiling) :
     docs \in LimitedResults(st, ScriptFailedMatches(st), RetryLimit)}

\* node starts; main() awaits newFeedbackQuery.get(), filters and sorts
ScriptStart(p) ==
  /\ pc[p] = "idle"
  /\ \E docs \in ScriptValidDocs(store) :
       /\ snap' = [snap EXCEPT ![p] = docs]
       /\ pc' = [pc EXCEPT ![p] = IF docs = <<>> THEN "retryq" ELSE "visit"]
  /\ failedSnap' = [failedSnap EXCEPT ![p] = <<>>]
  /\ idx' = [idx EXCEPT ![p] = 1]
  /\ loc' = [loc EXCEPT ![p] = LocInit]
  /\ exitCode' = [exitCode EXCEPT ![p] = NoExit]
  /\ Noted(p, HistStarted(NoEnvironment))
  /\ UNCHANGED <<exporter, store, blobs, issues, logFile, clock, cfg, runs, faults,
                 attempts>>

ScriptStartFail(p) ==
  /\ pc[p] = "idle"
  /\ Fault(p)
  /\ snap' = [snap EXCEPT ![p] = <<>>]
  /\ failedSnap' = [failedSnap EXCEPT ![p] = <<>>]
  /\ Abort(p)
  /\ Noted(p, [HistStarted(NoEnvironment) EXCEPT !.allOk = FALSE])
  /\ UNCHANGED <<exporter, store, blobs, issues, logFile, clock, cfg, runs, attempts>>

\* one iteration of `for (const doc of validDocs)`: the try block logs the
\* feedback id and does nothing else
ScriptVisit(p) ==
  /\ pc[p] = "visit"
  /\ idx' = [idx EXCEPT ![p] = @ + 1]
  /\ pc' = [pc EXCEPT ![p] = IF idx[p] + 1 > Len(snap[p]) THEN "retryq" ELSE "visit"]
  /\ UNCHANGED <<exporter, store, blobs, issues, logFile, clock, cfg, runs, faults,
                 snap, failedSnap, loc, exitCode, attempts, hist>>

\* const failedFeedback = await failedFeedbackQuery.get(); docsToRetry
ScriptRetryQuery(p) ==
  /\ pc[p] = "retryq"
  /\ \E docs \in ScriptDocsToRetry(store) :
        failedSnap' = [failedSnap EXCEPT ![p] = docs]
  /\ idx' = [idx EXCEPT ![p] = 1]
  /\ pc' = [pc EXCEPT ![p] = "reset"]
  /\ UNCHANGED <<exporter, store, blobs, issues, logFile, clock, cfg, runs, faults,
                 snap, loc, exitCode, attempts, hist>>

NextScript ==
  \/ \E p \in cfg.runners : ScriptStart(p)
  \/ \E p \in cfg.runners : ScriptStartFail(p)
  \/ \E p \in cfg.runners : ScriptVisit(p)
  \/ \E p \in cfg.runners : ScriptRetryQuery(p)
  \/ \E p \in cfg.runners : RetryQueryFail(p)
  \/ \E p \in cfg.runners : RetryReset(p)
  \/ \E p \in cfg.runners : RetryResetFail(p)
  \/ \E p \in cfg.runners : Finish(p)

\* a record as the complete variant of the sync leaves it: never attempted,
\* failed once, or failed RetryCeiling times
ScriptRecordIn(kind, r) ==
  IF kind = "pending" THEN NewRecord(r, Null)
  ELSE IF kind = "failed" THEN ErrorUpdate(NewRecord(r, Null), "create failed", 1)
  ELSE ErrorUpdate(ErrorUpdate(ErrorUpdate(NewRecord(r, Null), "create failed", 1),
                               "create failed", 1), "create failed", 1)

\* the stores the script runs on: the oldest e records are exhausted (none, or
\* as many as the retry query returns), the next f failed once, the others
\* pending
ScriptLayouts ==
  {[r \in 1..ScriptRecords |->
      IF r <= e THEN "exhausted" ELSE IF r <= e + f THEN "failed" ELSE "pending"] :
     e \in {0, RetryLimit}, f \in 0..1}

InitScript ==
  /\ \E st \in ScriptLayouts :
       /\ store = [r \in 1..ScriptRecords |-> ScriptRecordIn(st[r], r)]
       /\ attempts = [r \in 1..ScriptRecords |-> store[r].retryCount]
  /\ blobs = [r \in 1..ScriptRecords |-> AbsentBlob]
  /\ issues = <<>>
  /\ logFile = <<>>
  /\ clock = 1
  /\ cfg = [runners |-> {1}, maxRuns |-> 0, maxFaults |-> ScriptFaults]
  /\ runs = 0
  /\ faults = 0
  /\ pc = <<"idle">>
  /\ snap = <<(<<>>)>>
  /\ failedSnap = <<(<<>>)>>
  /\ idx = <<0>>
  /\ loc = <<LocInit>>
  /\ exitCode = <<NoExit>>
  /\ hist = <<HistInit(1..ScriptRecords)>>
  /\ exporter = ExporterInit

\* repeated sequential runs: a new run starts whenever the last has ended, and a
\* started run goes on
SpecScript == InitScript /\ [][NextScript]_vars /\ WF_vars(NextScript)

\* ---- sequential runs repeated forever (part_003) ----------------------------------
\* The job is started again whenever it has ended (runs and server time are not
\* counted here).  The query a run starts with and create-issue may throw in
\* any run; every other external call throws at most LiveFaults times in all.
LiveRecords == 1
LiveFaults == 1

\* node starts once more: the service account loads and main() is called
StartAgain(p) ==
  /\ pc[p] = "idle"
  /\ pc' = [pc EXCEPT ![p] = "query"]
  /\ snap' = [snap EXCEPT ![p] = <<>>]
  /\ failedSnap' = [failedSnap EXCEPT ![p] = <<>>]
  /\ idx' = [idx EXCEPT ![p] = 0]
  /\ loc' = [loc EXCEPT ![p] = LocInit]
  /\ exitCode' = [exitCode EXCEPT ![p] = NoExit]
  /\ \E env \in LoadableEnvironments :
       Noted(p, [HistInit(DOMAIN store) EXCEPT !.env = env])
  /\ UNCHANGED <<exporter, store, blobs, issues, logFile, clock, cfg, runs, faults,
                 attempts>>

\* const snapshot = await newFeedbackQuery.get()
FirstQuery(p) ==
  /\ pc[p] = "query"
  /\ snap' = [snap EXCEPT ![p] = NewFeedbackQuery(store)]
  /\ idx' = [idx EXCEPT ![p] = 1]
  /\ pc' = [pc EXCEPT ![p] = Enter(snap'[p], 1)]
  /\ Noted(p, HistStarted(hist[p].env))
  /\ UNCHANGED <<exporter, store, blobs, issues, logFile, clock, cfg, runs, faults,
                 failedSnap, loc, exitCode, attempts>>

\* newFeedbackQuery.get() throws: main() rejects, the process exits with 1
FirstQueryFail(p) ==
  /\ pc[p] = "query"
  /\ Abort(p)
  /\ Noted(p, [HistStarted(hist[p].env) EXCEPT !.allOk = FALSE])
  /\ UNCHANGED <<exporter, store, blobs, issues, logFile, clock, cfg, runs, faults,
                 snap, failedSnap, attempts>>

\* octokit.issues.create throws (in any run, any number of times)
CreateIssueThrows(p) ==
  /\ pc[p] = "create"
  /\ loc' = [loc EXCEPT ![p].error = "create failed"]
  /\ attempts' = [attempts EXCEPT ![Doc(p).id] = @ + 1]
  /\ Noted(p, [hist[p] EXCEPT !.creates[Doc(p).id] = @ + 1,
                              !.threw = @ \cup {Doc(p).id}, !.allOk = FALSE])
  /\ pc' = [pc EXCEPT ![p] = "catch"]
  /\ UNCHANGED <<exporter, store, blobs, issues, logFile, clock, cfg, runs, faults,
                 snap, failedSnap, idx, exitCode>>

NextLive ==
  \/ \E p \in cfg.runners : StartAgain(p)
  \/ \E p \in cfg.runners : FirstQuery(p)
  \/ \E p \in cfg.runners : FirstQueryFail(p)
  \/ \E p \in cfg.runners : Reconstruct(p)
  \/ \E p \in cfg.runners : ReconstructError(p)
  \/ \E p \in cfg.runners : SaveLocally(p)
  \/ \E p \in cfg.runners : SaveLocallyFail(p)
  \/ \E p \in cfg.runners : UploadGist(p)
  \/ \E p \in cfg.runners : UploadGistFail(p)
  \/ \E p \in cfg.runners : CreateIssue(p)
  \/ \E p \in cfg.runners : CreateIssueThrows(p)
  \/ \E p \in cfg.runners : SuccessWriteBack(p)
  \/ \E p \in cfg.runners : SuccessWriteBackFail(p)
  \/ \E p \in cfg.runners : UpdateFeedbackLog(p)
  \/ \E p \in cfg.runners : UpdateFeedbackLogCorrupt(p)
  \/ \E p \in cfg.runners : UpdateFeedbackLogFail(p)
  \/ \E p \in cfg.runners : ErrorWriteBack(p)
  \/ \E p \in cfg.runners : ErrorWriteBackFail(p)
  \/ \E p \in cfg.runners : RetryQuery(p)
  \/ \E p \in cfg.runners : RetryQueryFail(p)
  \/ \E p \in cfg.runners : RetryReset(p)
  \/ \E p \in cfg.runners : RetryResetFail(p)
  \/ \E p \in cfg.runners : Finish(p)

\* every record is new; a record has no screenshot or a complete one
InitLive ==
  /\ \E sh \in [1..LiveRecords -> OverlapShapes] :
       /\ store = [r \in 1..LiveRecords |->
                     NewRecord(r, IF sh[r] = "none" THEN Null ELSE r)]
       /\ blobs = [r \in 1..LiveRecords |-> BlobOf(sh[r])]
  /\ issues = <<>>
  /\ logFile = <<>>
  /\ clock = 1
  /\ cfg = [runners |-> {1}, maxRuns |-> 0, maxFaults |-> LiveFaults]
  /\ runs = 0
  /\ faults = 0
  /\ attempts = [r \in 1..LiveRecords |-> 0]
  /\ pc = <<"idle">>
  /\ snap = <<(<<>>)>>
  /\ failedSnap = <<(<<>>)>>
  /\ idx = <<0>>
  /\ loc = <<LocInit>>
  /\ exitCode = <<NoExit>>
  /\ hist = <<HistInit(1..LiveRecords)>>
  /\ exporter = ExporterInit

\* a new run starts whenever the last has ended, and a started run goes on
SpecLive == InitLive /\ [][NextLive]_vars /\ WF_vars(NextLive)

\* ---- one run over more records than its queries return ------------------------------
\* A store holds failed records (the oldest, each failed once) and pending
\* ones, LimitExtra more of a kind than the query for it returns; no record
\* has a screenshot.  External calls throw (at most LimitFaults times) in the
\* stores that hold one kind of record only.
LimitExtra == 1
LimitFaults == 2

LimitLayouts ==
  {[failed |-> 0, pending |-> PendingLimit + LimitExtra, faults |-> LimitFaults],
   [failed |-> RetryLimit + LimitExtra, pending |-> 0, faults |-> LimitFaults],
   [failed |-> RetryLimit + LimitExtra, pending |-> PendingLimit + LimitExtra,
    faults |-> 0]}

InitLimits ==
  /\ \E l \in LimitLayouts :
       /\ store = [r \in 1..(l.failed + l.pending) |->
                     IF r <= l.failed
                     THEN ErrorUpdate(NewRecord(r, Null), "create failed", 1)
                     ELSE NewRecord(r, Null)]
       /\ attempts = [r \in 1..(l.failed + l.pending) |->
                        IF r <= l.failed THEN 1 ELSE 0]
       /\ cfg = [runners |-> {1}, maxRuns |-> 1, maxFaults |-> l.faults]
  /\ blobs = [r \in DOMAIN store |-> AbsentBlob]
  /\ issues = <<>>
  /\ logFile = <<>>
  /\ clock = 1
  /\ runs = 0
  /\ faults = 0
  /\ pc = <<"idle">>
  /\ snap = <<(<<>>)>>
  /\ failedSnap = <<(<<>>)>>
  /\ idx = <<0>>
  /\ loc = <<LocInit>>
  /\ exitCode = <<NoExit>>
  /\ hist = <<HistInit(DOMAIN store)>>
  /\ exporter = ExporterInit

\* (no record has a screenshot: the steps of the screenshot are left out)
NextLimits ==
  \/ \E p \in cfg.runners : StartRun(p)
  \/ \E p \in cfg.runners : StartRunFail(p)
  \/ \E p \in cfg.runners : CreateIssue(p)
  \/ \E p \in cfg.runners : CreateIssueFail(p)
  \/ \E p \in cfg.runners : SuccessWriteBack(p)
  \/ \E p \in cfg.runners : SuccessWriteBackFail(p)
  \/ \E p \in cfg.runners : UpdateFeedbackLog(p)
  \/ \E p \in cfg.runners : UpdateFeedbackLogCorrupt(p)
  \/ \E p \in cfg.runners : UpdateFeedbackLogFail(p)
  \/ \E p \in cfg.runners : ErrorWriteBack(p)
  \/ \E p \in cfg.runners : ErrorWriteBackFail(p)
  \/ \E p \in cfg.runners : RetryQuery(p)
  \/ \E p \in cfg.runners : RetryQueryFail(p)
  \/ \E p \in cfg.runners : RetryReset(p)
  \/ \E p \in cfg.runners : RetryResetFail(p)
  \/ \E p \in cfg.runners : Finish(p)

SpecLimits == InitLimits /\ [][NextLimits]_vars

\* ---- the extension of the file saved locally --------------------------------------
\* one pending record with a complete screenshot of 1..MaxChunks chunks whose
\* metadata carries any MIME type or none; the run goes as far as the call of
\* octokit.issues.create
InitExtension ==
  /\ store = <<NewRecord(1, 1)>>
  /\ \E k \in 1..MaxChunks, mime \in MimeTypes \cup {"null"} :
       blobs = <<ChunkedBlob(k, k, mime)>>
  /\ issues = <<>>
  /\ logFile = <<>>
  /\ clock = 0
  /\ cfg = [runners |-> {1}, maxRuns |-> 1, maxFaults |-> 1]
  /\ runs = 0
  /\ faults = 0
  /\ attempts = <<0>>
  /\ pc = <<"idle">>
  /\ snap = <<(<<>>)>>
  /\ failedSnap = <<(<<>>)>>
  /\ idx = <<0>>
  /\ loc = <<LocInit>>
  /\ exitCode = <<NoExit>>
  /\ hist = <<HistInit({1})>>
  /\ exporter = ExporterInit

NextExtension ==
  \/ \E p \in cfg.runners : StartRun(p)
  \/ \E p \in cfg.runners : Reconstruct(p)
  \/ \E p \in cfg.runners : ReconstructError(p)
  \/ \E p \in cfg.runners : SaveLocally(p)
  \/ \E p \in cfg.runners : SaveLocallyFail(p)
  \/ \E p \in cfg.runners : UploadGist(p)
  \/ \E p \in cfg.runners : UploadGistFail(p)

SpecExtension == InitExtension /\ [][NextExtension]_vars

\* ---- the title and the labels of the issue created ------------------------------
MaxText == 82
MaxPlatform == 4

Texts == {[i \in 1..n |-> IF i % 2 = 1 THEN "a" ELSE "b"] : n \in 0..MaxText}

Platforms == UNION {[1..n -> {"i", "O", "s", "a"}] : n \in 0..MaxPlatform}

\* one pending record without screenshot, with any text and platform; the
\* run goes as far as the call of octokit.issues.create
InitFormat ==
  /\ \E text \in Texts, platform \in Platforms :
        store = <<[NewRecord(1, Null) EXCEPT !.text = text, !.platform = platform]>>
  /\ blobs = <<AbsentBlob>>
  /\ issues = <<>>
  /\ logFile = <<>>
  /\ clock = 0
  /\ cfg = [runners |-> {1}, maxRuns |-> 1, maxFaults |-> 0]
  /\ runs = 0
  /\ faults = 0
  /\ attempts = <<0>>
  /\ pc = <<"idle">>
  /\ snap = <<(<<>>)>>
  /\ failedSnap = <<(<<>>)>>
  /\ idx = <<0>>
  /\ loc = <<LocInit>>
  /\ exitCode = <<NoExit>>
  /\ hist = <<HistInit({1})>>
  /\ exporter = ExporterInit

NextFormat ==
  \/ \E p \in cfg.runners : StartRun(p)
  \/ \E p \in cfg.runners : CreateIssue(p)

SpecFormat == InitFormat /\ [][NextFormat]_vars

\* ---- reassembly of stored screenshots ------------------------------------------
\* The submission path splits the base64 text of a screenshot into consecutive
\* chunks of ChunkSize characters, stored with indices 0..k-1, and declares
\* totalChunks = k in the metadata document.
ChunkSize == 2
MaxPayload == 5

NumChunks(n, size) == (n + size - 1) \div size

SplitChunks(payload, size) ==
  [i \in 1..NumChunks(Len(payload), size) |->
     [index |-> i - 1,
      data |-> SubSeq(payload, (i - 1) * size + 1, Min(i * size, Len(payload)))]]

Payloads == UNION {[1..n -> {1, 2}] : n \in 0..MaxPayload}

\* the chunk documents of `written`, in document order (ascending or not)
RECURSIVE ChunkDocs(_, _, _)
ChunkDocs(all, written, ascending) ==
  IF written = {} THEN <<>>
  ELSE LET i == IF ascending
                THEN CHOOSE i \in written : \A j \in written : i <= j
                ELSE CHOOSE i \in written : \A j \in written : i >= j
       IN <<all[i]>> \o ChunkDocs(all, written \ {i}, ascending)

\* everything the blob store may hold for one screenshot id: the metadata
\* document present or not, any declared totalChunks, any subset of the chunk
\* documents written, in any of two document orders
StoredBlobs ==
  UNION {LET all == SplitChunks(payload, ChunkSize)
         IN {[exists |-> ex, totalChunks |-> declared, mimeType |-> mime,
              chunks |-> ChunkDocs(all, written, asc), payload |-> payload] :
               ex \in BOOLEAN, declared \in 0..(Len(all) + 1),
               mime \in {"null", "image/jpeg"},
               written \in SUBSET (1..Len(all)), asc \in BOOLEAN} :
         payload \in Payloads}

\* one pending record whose screenshot reference is 1; the run goes as far as
\* the call of reconstructScreenshot
InitReassembly ==
  /\ store = <<NewRecord(1, 1)>>
  /\ blobs \in {<<b>> : b \in StoredBlobs}
  /\ issues = <<>>
  /\ logFile = <<>>
  /\ clock = 0
  /\ cfg = [runners |-> {1}, maxRuns |-> 1, maxFaults |-> 1]
  /\ runs = 0
  /\ faults = 0
  /\ attempts = <<0>>
  /\ pc = <<"idle">>
  /\ snap = <<(<<>>)>>
  /\ failedSnap = <<(<<>>)>>
  /\ idx = <<0>>
  /\ loc = <<LocInit>>
  /\ exitCode = <<NoExit>>
  /\ hist = <<HistInit({1})>>
  /\ exporter = ExporterInit

NextReassembly ==
  \/ \E p \in cfg.runners : StartRun(p)
  \/ \E p \in cfg.runners : Reconstruct(p)
  \/ \E p \in cfg.runners : ReconstructError(p)

SpecReassembly == InitReassembly /\ [][NextReassembly]_vars

\* chunk documents whose indices are not the ones the submission path writes:
\* up to MaxIndexed documents with any indices (gaps and duplicates included),
\* chunk i carrying the data <<i>>, under any declared totalChunks
MaxIndexed == 2

IndexedBlobs ==
  UNION {{[exists |-> ex, totalChunks |-> declared, mimeType |-> "image/jpeg",
           chunks |-> [i \in 1..n |-> [index |-> ix[i], data |-> <<i>>]],
           payload |-> <<>>] :
            ex \in BOOLEAN, declared \in 0..(n + 1), ix \in [1..n -> 0..n]} :
         n \in 0..MaxIndexed}

\* one pending record whose screenshot reference is 1, as in InitReassembly
InitIndices ==
  /\ store = <<NewRecord(1, 1)>>
  /\ blobs \in {<<b>> : b \in IndexedBlobs}
  /\ issues = <<>>
  /\ logFile = <<>>
  /\ clock = 0
  /\ cfg = [runners |-> {1}, maxRuns |-> 1, maxFaults |-> 1]
  /\ runs = 0
  /\ faults = 0
  /\ attempts = <<0>>
  /\ pc = <<"idle">>
  /\ snap = <<(<<>>)>>
  /\ failedSnap = <<(<<>>)>>
  /\ idx = <<0>>
  /\ loc = <<LocInit>>
  /\ exitCode = <<NoExit>>
  /\ hist = <<HistInit({1})>>
  /\ exporter = ExporterInit

SpecIndices == InitIndices /\ [][NextReassembly]_vars

\* ---- properties ---------------------------------------------------------------
Ids == DOMAIN store

IssuesFor(r) == {i \in 1..Len(issues) : issues[i] = r}

Ended(p) == pc[p] = "idle" /\ exitCode[p] # NoExit

Completed(p) == pc[p] = "idle" /\ exitCode[p] = 0

\* C1: over any sequence of sequential runs with failing external calls, at
\* most one create-issue call succeeds for one feedback record.
C1_AtMostOneIssue == \A r \in Ids : Cardinality(IssuesFor(r)) <= 1

\* C2: under single-runner scheduling, once githubIssueUrl is non-null no
\* later step changes githubIssueUrl, githubIssueNumber or processedAt.
C2_IssueUrlImmutable ==
  [][\A r \in Ids :
       store[r].githubIssueUrl # Null =>
         /\ store'[r].githubIssueUrl = store[r].githubIssueUrl
         /\ store'[r].githubIssueNumber = store[r].githubIssueNumber
         /\ store'[r].processedAt = store[r].processedAt]_vars

\* a record synced in an earlier run, after a later run has completed
C2_Witness ==
  \E r \in Ids :
    /\ store[r].githubIssueUrl # Null
    /\ store[r].processedAt # Null
    /\ store[r].processedAt < clock
    /\ Completed(1)

\* record r has a screenshot of k >= 1 stored chunks with totalChunks = k
ValidScreenshot(r) ==
  /\ store[r].screenshot_ref # Null
  /\ LET b == blobs[store[r].screenshot_ref]
     IN b.exists /\ b.totalChunks >= 1 /\ Len(b.chunks) = b.totalChunks

SyncedOnce(p, r) ==
  /\ hist[p].creates[r] = 1
  /\ hist[p].updates[r] = 1
  /\ store[r].githubIssueUrl # Null
  /\ store[r].githubIssueNumber # Null
  /\ store[r].processedAt = clock
  /\ store[r].githubIssueError = NoMsg

\* C3 (as stated): for a pending record with a complete k-chunk screenshot, a
\* run in which every external call succeeds makes exactly one create-issue
\* call and one document update for it, after which githubIssueUrl,
\* githubIssueNumber and processedAt are set and githubIssueError is null.
C3_Original ==
  \A p \in cfg.runners :
    (Completed(p) /\ hist[p].allOk) =>
      \A r \in hist[p].pendingAtStart : ValidScreenshot(r) => SyncedOnce(p, r)

\* C3 (amended): the same, for a pending record that is among the
\* PendingLimit (10) most recently submitted pending records at the start of
\* the run.
C3_Amended ==
  \A p \in cfg.runners :
    (Completed(p) /\ hist[p].allOk) =>
      \A r \in hist[p].pendingAtStart :
        (/\ ValidScreenshot(r)
         /\ Cardinality({q \in hist[p].pendingAtStart :
                           store[q].timestamp > store[r].timestamp}) < PendingLimit)
          => SyncedOnce(p, r)

\* an all-successful completed run over more than PendingLimit pending
\* records has synced a record that has a complete screenshot
C3_Witness ==
  /\ Completed(1)
  /\ hist[1].allOk
  /\ Cardinality(hist[1].pendingAtStart) > PendingLimit
  /\ \E r \in hist[1].pendingAtStart : ValidScreenshot(r) /\ SyncedOnce(1, r)

\* the document of record r in the pending snapshot of runner p's run
SnapData(p, r) ==
  LET i == CHOOSE i \in 1..Len(snap[p]) : snap[p][i].id = r IN snap[p][i].data

\* C4 (as stated): if create-issue throws while a run processes a pending
\* record, then when that run ends the record has githubIssueError non-null,
\* retryCount = previous + 1 and githubIssueUrl null.
C4_Original ==
  \A p \in cfg.runners :
    Completed(p) =>
      \A r \in hist[p].threw :
        /\ store[r].githubIssueError # NoMsg
        /\ store[r].retryCount = SnapData(p, r).retryCount + 1
        /\ store[r].githubIssueUrl = Null

\* C4 (amended): if create-issue throws while a run processes a pending
\* record, the error write-back of the catch block leaves the record with
\* githubIssueError non-null, retryCount = previous + 1 and githubIssueUrl
\* null; when the run completes, githubIssueUrl is still null and retryCount
\* is still previous + 1, and githubIssueError is non-null unless the retry
\* stage of the same run has reset the record.
C4_Amended ==
  /\ [][\A p \in cfg.runners :
          (pc[p] = "catch" /\ pc'[p] # "catch" /\ exitCode'[p] = NoExit
           /\ Doc(p).id \in hist[p].threw) =>
            LET r == Doc(p).id
            IN /\ store'[r].githubIssueError # NoMsg
               /\ store'[r].retryCount = Doc(p).data.retryCount + 1
               /\ store'[r].githubIssueUrl = Null]_vars
  /\ [](\A p \in cfg.runners :
          Completed(p) =>
            \A r \in hist[p].threw :
              /\ store[r].githubIssueUrl = Null
              /\ store[r].retryCount = SnapData(p, r).retryCount + 1
              /\ (store[r].githubIssueError = NoMsg <=> r \in hist[p].resets))

\* a completed run in which create-issue threw for a record that the retry
\* stage of the same run then reset
C4_Witness ==
  \E r \in Ids :
    /\ Completed(1)
    /\ r \in hist[1].threw
    /\ r \in hist[1].resets
    /\ store[r].retryCount = SnapData(1, r).retryCount + 1

\* C5: after create-issue has succeeded for a record, the run performs
\* exactly one document update on that record (the success write-back), and
\* from then on the record is synced with githubIssueError null.
C5_Original ==
  \A p \in cfg.runners :
    \A r \in hist[p].created :
      /\ hist[p].updates[r] <= 1
      /\ hist[p].updates[r] = 1 =>
           IsSynced(store[r]) /\ store[r].githubIssueError = NoMsg
      /\ Ended(p) => hist[p].updates[r] = 1

\* C6: a failed record with retryCount = 2 is eligible for the retry reset;
\* a record with retryCount >= 3 is never selected by the retry query and
\* never reset.
C6_RetryCeiling ==
  /\ [](\A p \in cfg.runners :
          \A i \in 1..Len(failedSnap[p]) :
            /\ failedSnap[p][i].data.retryCount < RetryCeiling
            /\ IsFailed(failedSnap[p][i].data))
  /\ [][\A r \in Ids :
          (store[r].githubIssueError # NoMsg /\ store'[r].githubIssueError = NoMsg)
            => store[r].retryCount < RetryCeiling]_vars
  /\ [][\A p \in cfg.runners :
          (pc[p] = "retryq" /\ pc'[p] = "reset") =>
            \A r \in Ids :
              (IsFailed(store[r]) /\ store[r].retryCount = RetryCeiling - 1
               /\ Cardinality(FailedMatches(store)) <= RetryLimit)
                => \E i \in 1..Len(failedSnap'[p]) : failedSnap'[p][i].id = r]_vars

\* a record that failed twice has been reset by the retry stage
C6_Witness ==
  \E r \in Ids :
    /\ r \in hist[1].resets
    /\ store[r].retryCount = RetryCeiling - 1
    /\ store[r].githubIssueError = NoMsg
    /\ store[r].lastRetry = clock

\* C7: once a record is failed with retryCount >= 3, no later step of any
\* run changes any of its fields or calls create-issue for it.
C7_ExhaustedTerminal ==
  [][\A r \in Ids :
       IsExhausted(store[r]) =>
         /\ store'[r] = store[r]
         /\ attempts'[r] = attempts[r]
         /\ Len(issues') > Len(issues) => issues'[Len(issues')] # r]_vars

\* a record exhausted in an earlier run, after a later run has completed
C7_Witness ==
  \E r \in Ids :
    /\ IsExhausted(store[r])
    /\ store[r].lastAttempt < clock
    /\ Completed(1)
    /\ hist[1].allOk

\* C8: over any number of sequential runs, at most RetryCeiling create-issue
\* attempts are made for a record and its retryCount never exceeds
\* RetryCeiling.
C8_Original ==
  \A r \in Ids :
    /\ attempts[r] <= RetryCeiling
    /\ store[r].retryCount <= RetryCeiling

\* C9 (as stated): each retry reset (githubIssueError back to null)
\* increases the record's retryCount by 1.
C9_Original ==
  [][\A r \in Ids :
       (store[r].githubIssueError # NoMsg /\ store'[r].githubIssueError = NoMsg)
         => store'[r].retryCount = store[r].retryCount + 1]_vars

\* C9 (amended): the retry reset sets githubIssueError to null and stamps
\* lastRetry and leaves retryCount (and every other field) unchanged;
\* retryCount is increased only by the error write-back.
C9_Amended ==
  [][\A r \in Ids :
       /\ (store[r].githubIssueError # NoMsg /\ store'[r].githubIssueError = NoMsg)
            => store'[r] = [store[r] EXCEPT !.githubIssueError = NoMsg,
                                            !.lastRetry = clock]
       /\ store'[r].retryCount # store[r].retryCount
            => /\ store'[r].retryCount = store[r].retryCount + 1
               /\ store'[r].githubIssueError # NoMsg
               /\ store'[r].lastAttempt = clock]_vars

\* a record that failed once and was reset: retryCount is still 1
C9_Witness ==
  \E r \in Ids :
    /\ r \in hist[1].resets
    /\ store[r].githubIssueError = NoMsg
    /\ store[r].lastRetry = clock
    /\ store[r].retryCount = 1
    /\ attempts[r] = 1

\* C10: the retry-reset loop is the only operation that changes a record's
\* githubIssueError from non-null to null; the success write-back and the
\* error write-back never do (also when runs overlap).
C10_OnlyResetRearms ==
  [][\A r \in Ids :
       (store[r].githubIssueError # NoMsg /\ store'[r].githubIssueError = NoMsg) =>
         \E p \in cfg.runners :
           /\ pc[p] = "reset"
           /\ idx[p] <= Len(failedSnap[p])
           /\ failedSnap[p][idx[p]].id = r
           /\ idx'[p] = idx[p] + 1]_vars

\* a success write-back and an error write-back have both been applied to a
\* record that was failed at the time, and its githubIssueError is still set
C10_Witness ==
  \E r \in Ids :
    /\ store[r].githubIssueUrl # Null
    /\ store[r].githubIssueError # NoMsg
    /\ store[r].retryCount >= 2

\* runner p's call of reconstructScreenshot for the current record has returned
Reassembled(p) == pc[p] \in {"save", "create"} /\ loc[p].response = Null

\* the blob the current record of runner p refers to
BlobRef(p) == blobs[Doc(p).data.screenshot_ref]

\* C11: reconstructScreenshot returns Unavailable (null) whenever the metadata
\* document is absent and whenever the number of fetched chunk documents
\* differs from metadata.totalChunks; it never returns a blob in either case.
C11_UnavailableOnMismatch ==
  \A p \in cfg.runners :
    (Reassembled(p) /\ Doc(p).data.screenshot_ref # Null) =>
      ((~BlobRef(p).exists \/ Len(BlobRef(p).chunks) # BlobRef(p).totalChunks)
         => loc[p].base64Image = Unavailable)

\* reconstructScreenshot has returned, without a read error, for a screenshot
\* whose metadata exists and of which some but not all declared chunks are stored
C11_Witness ==
  /\ Reassembled(1)
  /\ hist[1].allOk
  /\ BlobRef(1).exists
  /\ Len(BlobRef(1).chunks) >= 1
  /\ Len(BlobRef(1).chunks) < BlobRef(1).totalChunks
  /\ loc[1].base64Image = Unavailable

\* the blob holds exactly the chunks of its payload, with totalChunks = k
Intact(b) ==
  LET all == SplitChunks(b.payload, ChunkSize)
  IN /\ b.exists
     /\ b.totalChunks = Len(all)
     /\ Len(b.chunks) = Len(all)
     /\ \A i \in 1..Len(all) : \E j \in 1..Len(b.chunks) : b.chunks[j] = all[i]

\* C12: for a payload of any length N (N = 0 included) split into consecutive
\* fixed-size chunks stored with indices 0..k-1 and totalChunks = k,
\* reconstructScreenshot returns a blob whose payload equals the original.
C12_Original ==
  \A p \in cfg.runners :
    (Reassembled(p) /\ hist[p].allOk /\ Doc(p).data.screenshot_ref # Null
     /\ Intact(BlobRef(p))) =>
      /\ loc[p].base64Image.ok
      /\ loc[p].base64Image.data = BlobRef(p).payload

\* the same for payloads of length N >= 1 (not a claim: the part of C12 the
\* code satisfies)
RoundTripNonEmpty ==
  \A p \in cfg.runners :
    (Reassembled(p) /\ hist[p].allOk /\ Doc(p).data.screenshot_ref # Null
     /\ Intact(BlobRef(p)) /\ Len(BlobRef(p).payload) >= 1) =>
      /\ loc[p].base64Image.ok
      /\ loc[p].base64Image.data = BlobRef(p).payload

\* the positions of main() inside `for (const doc of snapshot.docs)`
LoopPcs == {"fetch", "save", "gist", "create", "update", "log", "catch"}

\* C13: no failure of an external call while a record of the batch is handled
\* (a failure of the error write-back in the catch block included) aborts the
\* batch: the run goes on to the next record or to the retry-reset stage.
C13_Original ==
  [][\A p \in cfg.runners :
       pc[p] \in LoopPcs =>
         /\ pc'[p] \in LoopPcs \cup {"retryq"}
         /\ exitCode'[p] = NoExit
         /\ idx'[p] \in {idx[p], idx[p] + 1}]_vars

\* C14: when a pending record has a screenshot reference and
\* reconstructScreenshot returns Unavailable (metadata absent, chunk-count
\* mismatch or a store read error), the run goes on to call create-issue for
\* that record; the record is not marked failed and its retryCount is not
\* incremented because of the missing screenshot: the catch block is entered
\* only when a later external call of the record throws.
C14_SoftUnavailable ==
  /\ [][\A p \in cfg.runners :
          (pc[p] = "fetch" /\ pc'[p] # "fetch" /\ ~loc'[p].base64Image.ok) =>
            /\ pc'[p] = "create"
            /\ loc'[p].error = NoMsg
            /\ store' = store]_vars
  /\ [][\A p \in cfg.runners :
          (pc[p] # "catch" /\ pc'[p] = "catch") =>
            /\ pc[p] \in {"create", "update", "log"}
            /\ faults' = faults + 1]_vars
  /\ [](\A p \in cfg.runners :
          Completed(p) =>
            \A i \in 1..Len(snap[p]) :
              (/\ snap[p][i].data.screenshot_ref # Null
               /\ ~ReconstructScreenshot(blobs, snap[p][i].data.screenshot_ref).ok)
                => hist[p].creates[snap[p][i].id] = 1)

\* a completed run has synced a record whose reference points to no metadata
\* document: its issue exists, it is not failed and retryCount is still 0
C14_Witness ==
  \E r \in Ids :
    /\ Completed(1)
    /\ store[r].screenshot_ref # Null
    /\ ~blobs[store[r].screenshot_ref].exists
    /\ r \in hist[1].created
    /\ IsSynced(store[r])
    /\ store[r].githubIssueError = NoMsg
    /\ store[r].retryCount = 0

\* octokit.issues.create has been called for the current record of runner p
IssueRequested(p) == pc[p] = "update"

\* C15: for non-empty text of length L the title is '[Feedback] ' followed by
\* the whole text with no ellipsis when L <= 80, and by exactly the first 80
\* characters followed by '...' when L >= 81; for absent or empty text it is
\* the fallback containing the record id.
C15_IssueTitle ==
  \A p \in cfg.runners :
    IssueRequested(p) =>
      LET text == Doc(p).data.text
          title == loc[p].issueTitle
      IN /\ Head(title) = "[Feedback] "
         /\ (Len(text) >= 1 /\ Len(text) <= 80) => Tail(title) = text
         /\ Len(text) >= 81 =>
              Tail(title) = [i \in 1..80 |-> text[i]] \o <<"...">>
         /\ Len(text) = 0 =>
              /\ \E i \in 2..Len(title) : title[i] = ToString(Doc(p).id)
              /\ \A i \in 2..Len(title) : title[i] \notin {"a", "b", "..."}

\* an issue has been requested for a text of 81 characters: 80 and '...'
C15_Witness ==
  /\ IssueRequested(1)
  /\ Len(Doc(1).data.text) = 81
  /\ Len(loc[1].issueTitle) = 82
  /\ loc[1].issueTitle[82] = "..."

Carries(labels, l) == \E i \in 1..Len(labels) : labels[i] = l

\* the platform text contains 'ios' in some letter case
ContainsIos(platform) ==
  \E i \in 1..(Len(platform) - 2) :
     /\ platform[i] \in {"i", "I"}
     /\ platform[i + 1] \in {"o", "O"}
     /\ platform[i + 2] \in {"s", "S"}

\* C16: every created issue carries 'feedback', 'from-app' and the default
\* status label; 'ios' and not 'android' when the platform text contains 'ios'
\* in any letter case, 'android' and not 'ios' for any other non-empty
\* platform text, and neither when platform is absent or empty.
C16_IssueLabels ==
  \A p \in cfg.runners :
    IssueRequested(p) =>
      LET platform == Doc(p).data.platform
          labels == loc[p].labels
      IN /\ Carries(labels, "feedback")
         /\ Carries(labels, "from-app")
         /\ Carries(labels, DefaultStatus)
         /\ Carries(labels, "ios") <=> ContainsIos(platform)
         /\ Carries(labels, "android") <=> (platform # <<>> /\ ~ContainsIos(platform))

\* an issue has been requested for a platform text that contains 'iOs' after
\* another character, and carries 'ios'
C16_Witness ==
  /\ IssueRequested(1)
  /\ Doc(1).data.platform = <<"a", "i", "O", "s">>
  /\ Carries(loc[1].labels, "ios")
  /\ ~Carries(loc[1].labels, "android")

\* C17: the report exporter is read-only with respect to the store: every
\* step of an export run, also of runs in which reassembly or persistence
\* fails, leaves every feedback record and every blob metadata/chunk document
\* unchanged and makes no issue-tracker call.
C17_ExporterReadOnly ==
  [][exporter' # exporter =>
       /\ store' = store
       /\ blobs' = blobs
       /\ issues' = issues
       /\ attempts' = attempts]_vars

\* a finished export in which one screenshot was saved and another record's
\* screenshot could not be reassembled, over a store with a synced record
C17_Witness ==
  /\ exporter.pc = "idle"
  /\ exporter.exitCode = 0
  /\ \E f \in exporter.files : f.name = "feedback_export.json"
  /\ \E i, j \in 1..Len(exporter.tasks) :
       /\ exporter.tasks[i].localScreenshotPath # Null
       /\ exporter.docs[j].data.screenshot_ref # Null
       /\ exporter.tasks[j].localScreenshotPath = Null
  /\ \E r \in Ids : IsSynced(store[r])

\* the positions of main() whose awaited call is outside every try block
EscapePcs == {"idle", "catch", "retryq", "reset"}

\* C18: a sync run exits with 0 exactly when main() completes without an
\* exception escaping it (also when records ended failed), and with 1
\* whenever an exception escapes main().
C18_ExitCode ==
  [][\A p \in cfg.runners :
       /\ (exitCode'[p] # exitCode[p] /\ exitCode'[p] # NoExit) =>
            /\ exitCode'[p] \in {0, 1}
            /\ exitCode'[p] = 0 <=>
                 (/\ pc[p] = "reset"
                  /\ idx[p] > Len(failedSnap[p])
                  /\ faults' = faults
                  /\ \A i \in 1..Len(snap[p]) : hist[p].updates[snap[p][i].id] >= 1)
       /\ (faults' = faults + 1 /\ pc[p] \in EscapePcs) =>
            pc'[p] = "idle" /\ exitCode'[p] = 1]_vars

\* a run in which create-issue threw for every record of the batch has
\* completed and exited with 0
C18_Witness ==
  /\ Completed(1)
  /\ hist[1].pendingAtStart # {}
  /\ hist[1].threw = hist[1].pendingAtStart
  /\ hist[1].created = {}

\* the environment has no usable service account
BadEnvironment(env) ==
  \E x \in {"path", "file", "json", "project_id", "private_key", "client_email"} :
     x \in env

\* C19: if FIREBASE_SERVICE_ACCOUNT_PATH is unset, the file cannot be read or
\* parsed, or a required field is missing, the process exits with code 1
\* without any document-store read or write and without any issue-tracker
\* call.
C19_FatalStartup ==
  /\ [](\A p \in cfg.runners :
          (runs > 0 /\ BadEnvironment(hist[p].env)) =>
            /\ pc[p] = "idle"
            /\ exitCode[p] = 1
            /\ ~hist[p].queried
            /\ \A r \in Ids : hist[p].creates[r] = 0 /\ hist[p].updates[r] = 0)
  /\ [][\A p \in cfg.runners :
          (hist'[p] # hist[p] /\ BadEnvironment(hist'[p].env)) =>
            /\ store' = store
            /\ issues' = issues
            /\ attempts' = attempts
            /\ exitCode'[p] = 1]_vars

\* a start with a service account file that lacks only private_key has
\* exited with 1, after an earlier run left an issue in the tracker
C19_Witness ==
  /\ hist[1].env = {"private_key"}
  /\ exitCode[1] = 1
  /\ pc[1] = "idle"
  /\ Len(issues) = 1

\* C20: when two runs overlap, both can select the same pending record and
\* both call create-issue for it: two issues then exist for the record, and
\* each success write-back sets githubIssueUrl to the issue of its own run, so
\* the later one overwrites what the earlier one wrote.
C20_OverlapDuplicates ==
  /\ [][\A p \in cfg.runners :
          (pc[p] = "update" /\ pc'[p] = "log") =>
            /\ issues[loc[p].response] = Doc(p).id
            /\ store'[Doc(p).id].githubIssueUrl = loc[p].response
            /\ store'[Doc(p).id].githubIssueNumber = loc[p].response]_vars
  /\ [](\A r \in Ids :
          \A p, q \in cfg.runners :
            (p # q /\ r \in hist[p].created /\ r \in hist[q].created
             /\ attempts[r] = 2)
              => Cardinality(IssuesFor(r)) = 2)

\* both runners have created an issue for the same record and have applied
\* their success write-back, with no failure anywhere: the record points to
\* the issue of the run that wrote last
C20_Witness ==
  \E r \in Ids :
    /\ faults = 0
    /\ \A p \in cfg.runners :
         /\ r \in hist[p].created
         /\ hist[p].updates[r] = 1
         /\ Completed(p)
    /\ Cardinality(IssuesFor(r)) = 2
    /\ store[r].githubIssueUrl = 1

\* the issues that exist before the run of SpecOrder
InitialIssues == {r \in DOMAIN cfg.initial : IsSynced(cfg.initial[r])}

\* the issues a run has created, in call order, over the `made` issues before it
CreatedBy(made) == SubSeq(issues, made + 1, Len(issues))

\* the stages in the other order: the retry reset first, then the primary
\* stage over the store the reset left
StagesReversed(st, made, now) ==
  {PrimaryStage(RetryStage(st, docs, now),
                NewFeedbackQuery(RetryStage(st, docs, now)), made, now) :
     docs \in FailedFeedbackResults(st)}

\* the run of SpecOrder as its two stages (not a claim: the stage operators
\* agree with the steps of main())
StagesSummarise ==
  Completed(1) =>
    [store |-> store, created |-> CreatedBy(Cardinality(InitialIssues))] \in
      StagesInCodeOrder(cfg.initial, Cardinality(InitialIssues), clock)

RetryPcs == {"retryq", "reset"}

\* C22: the retry stage makes no issue-tracker or gist call and leaves
\* githubIssueUrl, githubIssueNumber and processedAt unchanged, and a record
\* reset in a run is not passed to create-issue before the primary stage of
\* the next run.
C22_ResetNoSync ==
  /\ [][\A p \in cfg.runners :
          pc[p] \in RetryPcs =>
            /\ issues' = issues
            /\ attempts' = attempts
            /\ loc'[p].gistInfo = Null
            /\ loc'[p].response = Null
            /\ \A r \in Ids :
                 /\ store'[r].githubIssueUrl = store[r].githubIssueUrl
                 /\ store'[r].githubIssueNumber = store[r].githubIssueNumber
                 /\ store'[r].processedAt = store[r].processedAt]_vars
  /\ [][\A p \in cfg.runners :
          \A r \in hist[p].resets :
            /\ attempts'[r] = attempts[r]
            /\ Len(issues') > Len(issues) => issues'[Len(issues')] # r]_vars

\* a record that failed and was reset in an earlier run has been passed to
\* create-issue again by the primary stage of a later run
C22_Witness ==
  \E r \in Ids :
    /\ store[r].lastRetry # Null
    /\ store[r].lastRetry < clock
    /\ attempts[r] = 2
    /\ r \in hist[1].created
    /\ hist[1].resets = {}

\* the screenshot of the current record was reassembled, but its upload or
\* its local copy failed
AttachmentFailed(p) ==
  /\ loc[p].base64Image.ok
  /\ pc[p] \in {"create", "update", "log", "catch"}
  /\ (loc[p].gistInfo = Null \/ loc[p].localScreenshotPath = "null")

C24_OneAtATime ==
  /\ [](\A p \in cfg.runners :
          /\ \A i \in 1..(Len(snap[p]) - 1) :
               snap[p][i].data.timestamp > snap[p][i + 1].data.timestamp
          /\ pc[p] \in LoopPcs =>
               /\ \A j \in 1..(idx[p] - 1) : hist[p].updates[snap[p][j].id] >= 1
               /\ \A j \in (idx[p] + 1)..Len(snap[p]) :
                    /\ hist[p].creates[snap[p][j].id] = 0
                    /\ hist[p].updates[snap[p][j].id] = 0)
  /\ [][\A p \in cfg.runners :
          (pc[p] \in LoopPcs /\ idx'[p] = idx[p] + 1) =>
            /\ pc[p] \in {"log", "catch"}
            /\ hist'[p].updates[Doc(p).id] >= 1]_vars

\* the run is about to call create-issue for the second, older record of its
\* batch after the error write-back of the first
C24_Witness ==
  /\ pc[1] = "create"
  /\ idx[1] = 2
  /\ snap[1][1].data.timestamp > snap[1][2].data.timestamp
  /\ snap[1][1].id \in hist[1].threw
  /\ IsFailed(store[snap[1][1].id])
  /\ hist[1].creates[snap[1][2].id] = 0

\* the positions of main() in its primary stage, in either variant
PrimaryPcs == LoopPcs \cup {"visit"}

\* the records runner p's primary stage has selected
Selected(p) == {snap[p][i].id : i \in 1..Len(snap[p])}

\* C25: in every sync variant the primary stage selects exactly the
\* min(10, P) most recently submitted pending records, P being the number of
\* pending records in the store; synced and failed records never reduce the
\* number of pending records selected.
C25_Original ==
  \A p \in cfg.runners :
    pc[p] \in PrimaryPcs \cup {"retryq"} =>
      LET P == hist[p].pendingAtStart
      IN /\ Cardinality(Selected(p)) = Min(PendingLimit, Cardinality(P))
         /\ Selected(p) \subseteq P
         /\ \A r \in Selected(p), q \in P \ Selected(p) :
              store[r].timestamp > store[q].timestamp

\* C26: in the workflow's entry script every pending record selected by the
\* primary stage is taken through the per-record protocol: the run calls
\* create-issue for it and then writes back the issue linkage or the error
\* fields, so that no selected record is still pending with unchanged fields
\* when the primary stage ends.
C26_Original ==
  \A p \in cfg.runners :
    pc[p] = "retryq" =>
      \A i \in 1..Len(snap[p]) :
        /\ hist[p].creates[snap[p][i].id] >= 1
        /\ hist[p].updates[snap[p][i].id] >= 1
        /\ store[snap[p][i].id] # snap[p][i].data

\* C27: in the workflow's entry script, under repeated sequential runs, every
\* failed record with retryCount < 3 is eventually reset to pending, whatever
\* number of exhausted records is present in the store.
C27_Original ==
  \A r \in 1..ScriptRecords :
    (IsFailed(store[r]) /\ store[r].retryCount < RetryCeiling) ~> IsPending(store[r])

\* a record no run will select again: synced, or failed RetryCeiling times
Settled(d) == IsSynced(d) \/ IsExhausted(d)

AllSettled == \A r \in DOMAIN store : Settled(store[r])

\* a step that calls create-issue or changes a document
CallsOrWrites == attempts' # attempts \/ issues' # issues \/ store' # store

\* the positions of a run that found no pending record, and between runs
QuietPcs == {"idle", "query", "retryq", "reset"}

\* a run over settled records stays where no record is handled, and none of its
\* steps calls create-issue or updates a document
Quiescence ==
  [][(AllSettled /\ \A p \in cfg.runners : pc[p] \in QuietPcs)
       => /\ AllSettled'
          /\ \A p \in cfg.runners : pc'[p] \in QuietPcs
          /\ ~CallsOrWrites]_vars

Arranged(ch, f) == [k \in 1..Len(ch) |-> ch[f[k]]]

AscendingIndex(docs) ==
  \A k, l \in 1..Len(docs) : k < l => docs[k].index <= docs[l].index

\* C30: when reconstructScreenshot returns a blob, its payload is the
\* concatenation of the chunk data strings in ascending index order, whatever
\* the order in which the chunk documents were written, and it is tagged with
\* metadata.mimeType, or with image/png when mimeType is absent.
C30_ConcatInIndexOrder ==
  \A p \in cfg.runners :
    loc[p].base64Image # Unavailable =>
      LET screenshotDoc == blobs[Doc(p).data.screenshot_ref]
          ch == screenshotDoc.chunks
      IN /\ \E f \in Perms(1..Len(ch)) :
              /\ AscendingIndex(Arranged(ch, f))
              /\ loc[p].base64Image.data = ConcatData(Arranged(ch, f))
         /\ loc[p].base64Image.mimeType =
              (IF screenshotDoc.mimeType = "null" THEN "image/png"
               ELSE screenshotDoc.mimeType)

\* C30 (witness): a blob is returned for chunk documents written last chunk
\* first, with different data, under metadata without mimeType
C30_Witness ==
  /\ loc[1].base64Image # Unavailable
  /\ blobs[1].mimeType = "null"
  /\ Len(blobs[1].chunks) >= 2
  /\ blobs[1].chunks[1].index > blobs[1].chunks[2].index
  /\ blobs[1].chunks[1].data # blobs[1].chunks[2].data
  /\ loc[1].base64Image.mimeType = "image/png"

\* the indices of the chunk documents are exactly 0..totalChunks-1, each once
DenseIndices(b) ==
  /\ Len(b.chunks) = b.totalChunks
  /\ {b.chunks[i].index : i \in 1..Len(b.chunks)} = 0..(b.totalChunks - 1)

\* C29: reconstructScreenshot returns a blob only when the fetched chunk
\* documents have indices exactly 0..totalChunks-1; a chunk set whose count
\* equals totalChunks but whose indices have a gap or a duplicate is reported
\* Unavailable.
C29_Original ==
  \A p \in cfg.runners :
    (Reassembled(p) /\ Doc(p).data.screenshot_ref # Null) =>
      (loc[p].base64Image # Unavailable => DenseIndices(BlobRef(p)))

\* C29, amended: reconstructScreenshot returns a blob only when the number of
\* fetched chunk documents equals totalChunks; the indices are not compared, and
\* a (non-empty) chunk set whose count equals totalChunks is returned as an
\* image also when its indices have a gap or a duplicate.
C29_Amended ==
  \A p \in cfg.runners :
    (Reassembled(p) /\ Doc(p).data.screenshot_ref # Null) =>
      /\ loc[p].base64Image # Unavailable =>
            Len(BlobRef(p).chunks) = BlobRef(p).totalChunks
      /\ (/\ hist[p].allOk
          /\ BlobRef(p).exists
          /\ Len(BlobRef(p).chunks) >= 1
          /\ Len(BlobRef(p).chunks) = BlobRef(p).totalChunks)
           => loc[p].base64Image # Unavailable

\* C29 (witness): a blob is returned for two chunk documents of the same index
C29_Witness ==
  /\ Reassembled(1)
  /\ loc[1].base64Image # Unavailable
  /\ BlobRef(1).totalChunks = 2
  /\ BlobRef(1).chunks[1].index = BlobRef(1).chunks[2].index

\* C31: retryCount is monotonic: no operation of the sync driver (success
\* write-back, error write-back, retry reset) ever decreases a record's
\* retryCount, and the error write-back increases it by exactly 1.
C31_RetryCountMonotonic ==
  [][/\ \A r \in Ids : store'[r].retryCount >= store[r].retryCount
     /\ \A p \in cfg.runners :
          (pc[p] = "catch" /\ hist'[p].updates # hist[p].updates) =>
            /\ store'[Doc(p).id].retryCount = store[Doc(p).id].retryCount + 1
            /\ \A r \in Ids \ {Doc(p).id} : store'[r] = store[r]]_vars

\* C31 (witness): a record synced after it failed twice and was reset twice
\* still has retryCount 2
C31_Witness ==
  \E r \in Ids :
    /\ IsSynced(store[r])
    /\ store[r].retryCount = 2
    /\ store[r].lastRetry # 0
    /\ store[r].githubIssueError = NoMsg

\* the create-issue calls runner p's run has made, over the records of S
RECURSIVE CreateCalls(_, _)
CreateCalls(p, S) ==
  IF S = {} THEN 0
  ELSE LET r == CHOOSE r \in S : TRUE
       IN hist[p].creates[r] + CreateCalls(p, S \ {r})

\* C32: a single sync run makes at most 10 create-issue calls and resets at
\* most 5 failed records, whatever the number of pending and failed records
\* in the store.
C32_BoundedBatches ==
  \A p \in cfg.runners :
    /\ CreateCalls(p, Ids) <= PendingLimit
    /\ Cardinality(hist[p].resets) <= RetryLimit
    /\ Len(snap[p]) <= PendingLimit
    /\ Len(failedSnap[p]) <= RetryLimit

\* C32 (witness): a completed run that found more than 10 pending records and
\* leaves more than 5 failed ones has made 10 create-issue calls and 5 resets
C32_Witness ==
  /\ Completed(1)
  /\ Cardinality(hist[1].pendingAtStart) > PendingLimit
  /\ CreateCalls(1, Ids) = PendingLimit
  /\ Cardinality(hist[1].resets) = RetryLimit
  /\ \E r \in Ids : IsFailed(store[r]) /\ store[r].retryCount < RetryCeiling

\* the export file written by the step, if the step writes it
JsonWritten(f) == f \in exporter'.files /\ f.name = "feedback_export.json"

\* C33: exporter screenshot handling is best-effort: if reassembly or local
\* persistence fails for any subset of the fetched records, the export still
\* writes the JSON file containing every fetched record with total_items
\* equal to the number fetched, and a record has localScreenshotPath set
\* exactly when both its reassembly and its persistence succeeded.
C33_BestEffortExport ==
  /\ [][(exporter.pc = "map" /\ ~AllTasksDone) =>
          (exporter'.pc = "map" /\ exporter'.exitCode = NoExit)]_vars
  /\ [](exporter.pc = "map" /\ AllTasksDone => ENABLED ExportWriteJson)
  /\ [][(exporter.pc = "map" /\ exporter'.pc = "html") =>
          \E f \in exporter'.files :
            /\ JsonWritten(f)
            /\ f.total_items = Len(ExportQuery(store))
            /\ \A i \in 1..Len(ExportQuery(store)) :
                 /\ f.feedback[i].id = ExportQuery(store)[i].id
                 /\ f.feedback[i].data = ExportQuery(store)[i].data
                 /\ f.feedback[i].localScreenshotPath # Null <=>
                      (/\ exporter.tasks[i].base64Data # Unavailable
                       /\ exporter.tasks[i].localScreenshotPath # Null)]_vars
  /\ [][\A i \in 1..Len(exporter.tasks) :
          (exporter.pc = "map" /\ exporter'.pc = "map"
           /\ exporter'.tasks[i] # exporter.tasks[i]) =>
            (exporter'.tasks[i].localScreenshotPath # Null <=>
               (/\ exporter.tasks[i].pc = "save"
                /\ faults' = faults
                /\ exporter.docs[i].id \in exporter'.screenshots))]_vars

\* C33 (witness): a finished export whose JSON file lists two records: the
\* screenshot of one was saved, the persistence of the other's failed
C33_Witness ==
  /\ exporter.pc = "idle"
  /\ exporter.exitCode = 0
  /\ \E f \in exporter.files :
       /\ f.name = "feedback_export.json"
       /\ f.total_items = 2
       /\ \E i, j \in 1..2 :
            /\ f.feedback[i].localScreenshotPath # Null
            /\ f.feedback[j].localScreenshotPath = Null
            /\ exporter.tasks[j].base64Data # Unavailable

\* C34: in the exporter, where the reconstruction for all fetched records runs
\* concurrently (Promise.all), the exported feedback array lists the records
\* in the query's order (submission time descending) and each record's
\* localScreenshotPath names the file of its own record id, for every
\* interleaving of the reconstruction and persistence completions.
C34_OrderAndOwnFile ==
  /\ [](\A i \in 1..Len(exporter.tasks) :
          exporter.tasks[i].localScreenshotPath # Null =>
            /\ exporter.tasks[i].localScreenshotPath = exporter.docs[i].id
            /\ exporter.docs[i].id \in exporter.screenshots)
  /\ [][(exporter.pc = "map" /\ exporter'.pc = "html") =>
          \E f \in exporter'.files :
            /\ JsonWritten(f)
            /\ \A i, j \in 1..Len(f.feedback) :
                 i < j => f.feedback[i].data.timestamp > f.feedback[j].data.timestamp
            /\ \A i \in 1..Len(f.feedback) :
                 f.feedback[i].localScreenshotPath \in {Null, f.feedback[i].id}]_vars

\* C34 (witness): the callback of the second document has saved its own file
\* and finished while the callback of the first waits for its reconstruction
C34_Witness ==
  /\ exporter.pc = "map"
  /\ Len(exporter.tasks) = 2
  /\ exporter.tasks[1].pc = "fetch"
  /\ exporter.tasks[2].pc = "done"
  /\ exporter.tasks[2].localScreenshotPath = exporter.docs[2].id
  /\ exporter.docs[1].data.timestamp > exporter.docs[2].data.timestamp

\* C35: when a record has a screenshot reference but reassembly reports
\* Unavailable, the body of the created issue contains a placeholder sentence
\* noting that the screenshot could not be attached (the screenshot section
\* is not silently empty).
C35_Original ==
  \A p \in cfg.runners :
    (/\ pc[p] = "update"
     /\ Doc(p).data.screenshot_ref # Null
     /\ loc[p].base64Image = Unavailable) =>
      loc[p].issueBody # ""

\* C36: the saved file's extension is .png when the blob's MIME type contains
\* 'png', .jpg when it contains 'jpg' or 'jpeg', and .png for every other
\* MIME type (for example image/webp or image/gif).
C36_Original ==
  \A p \in cfg.runners :
    (pc[p] = "gist" /\ loc[p].localScreenshotPath # "null") =>
      LET chars == Characters[loc[p].base64Image.mimeType]
      IN loc[p].localScreenshotPath =
           (IF Includes(chars, <<"p", "n", "g">>) THEN "png"
            ELSE IF Includes(chars, <<"j", "p", "g">>)
                    \/ Includes(chars, <<"j", "p", "e", "g">>) THEN "jpg"
            ELSE "png")

====
